---------------------------- MODULE Spec2Model ----------------------------
(***************************************************************************)
(* Model of the benchtool chart generators (graphgen.py,                   *)
(* plot_tidesdb_rocksdb.py, visualize.py, visualize_extensive.py,          *)
(* tidesdb_rocksdb.py): a CSV of benchmark observations is loaded once,    *)
(* then the chart routines of the script run in the order of its main,     *)
(* each computing its series from the loaded table.                        *)
(*                                                                         *)
(* A metric cell of the CSV is a natural number or NaN (blank or           *)
(* unparseable).  A computed float is a record: a reduced fraction         *)
(* (k = "num"), NaN (k = "nan") or infinity (k = "inf").                   *)
(***************************************************************************)
EXTENDS Integers, Sequences, FiniteSets, TLC

VARIABLES script, csv, columns, df, pc, out, status, fs, plt, seen, workers, args

vars == <<script, csv, columns, df, pc, out, status, fs, plt, seen, workers, args>>

-----------------------------------------------------------------------------
(* Bounds of the model.                                                    *)

MaxRows == 3

\* a blank / unparseable metric cell
NaN == -1

-----------------------------------------------------------------------------
(* Floating point values as the scripts compute them.                      *)

RECURSIVE GCD(_, _)
GCD(a, b) == IF b = 0 THEN a ELSE GCD(b, a % b)

NaNF == [k |-> "nan", n |-> 0, d |-> 0]
InfF == [k |-> "inf", n |-> 0, d |-> 0]

\* the float n/d (n >= 0, d > 0), in lowest terms
Frac(n, d) == LET g == GCD(n, d) IN [k |-> "num", n |-> n \div g, d |-> d \div g]

ZeroF == Frac(0, 1)
OneF == Frac(1, 1)

\* a cell of the table as a float
ToFloat(v) == IF v = NaN THEN NaNF ELSE Frac(v, 1)

\* pd.notna / not np.isnan
NotNa(x) == x.k # "nan"

IsFinite(x) == x.k = "num"

\* x > 0 (every comparison with NaN is false)
Gt0(x) == x.k = "inf" \/ (x.k = "num" /\ x.n > 0)


\* a < b on floats
LtF(a, b) ==
    /\ NotNa(a) /\ NotNa(b)
    /\ a.k = "num"
    /\ (b.k = "inf" \/ a.n * b.d < b.n * a.d)

\* numpy float64 division a / b of non-negative floats: x/0 is inf, 0/0 is NaN
DivF(a, b) ==
    IF a.k = "nan" \/ b.k = "nan" THEN NaNF
    ELSE IF b.k = "inf" THEN (IF a.k = "inf" THEN NaNF ELSE ZeroF)
    ELSE IF a.k = "inf" THEN InfF
    ELSE IF b.n = 0 THEN (IF a.n = 0 THEN NaNF ELSE InfF)
    ELSE Frac(a.n * b.d, a.d * b.n)

-----------------------------------------------------------------------------
(* pandas primitives.                                                      *)

\* Series.sum() / Series.count(): NaN cells are skipped
RECURSIVE SeriesSum(_)
SeriesSum(s) ==
    IF s = <<>> THEN 0
    ELSE (IF Head(s) = NaN THEN 0 ELSE Head(s)) + SeriesSum(Tail(s))

RECURSIVE SeriesCount(_)
SeriesCount(s) ==
    IF s = <<>> THEN 0
    ELSE (IF Head(s) = NaN THEN 0 ELSE 1) + SeriesCount(Tail(s))

\* the first non-NaN cell in place of the mean
SeriesFirstValue(s) ==
    LET vs == SelectSeq(s, LAMBDA v : v # NaN)
    IN IF vs = <<>> THEN NaNF ELSE Frac(Head(vs), 1)

\* Series.mean(): the mean of the non-NaN cells, NaN when there is none
SeriesMean(s) ==
    IF SeriesCount(s) = 0 THEN NaNF ELSE Frac(SeriesSum(s), SeriesCount(s))

\* df[col]
Column(t, col) == [i \in 1..Len(t) |-> t[i][col]]

\* Series.unique(): the distinct values in order of first appearance
RECURSIVE Unique(_)
Unique(s) ==
    IF s = <<>> THEN <<>>
    ELSE LET r == Unique(SubSeq(s, 1, Len(s) - 1))
             x == s[Len(s)]
         IN IF \E i \in 1..Len(r) : r[i] = x THEN r ELSE Append(r, x)

Range(s) == {s[i] : i \in 1..Len(s)}

\* the ascending sequence of a finite set of integers
RECURSIVE SortedInts(_)
SortedInts(S) ==
    IF S = {} THEN <<>>
    ELSE LET m == CHOOSE x \in S : \A y \in S : x <= y
         IN <<m>> \o SortedInts(S \ {m})


\* the members of S in the order of the sequence ord: sorted(...) of strings,
\* ord being the alphabetical list of the values that occur
SortedBy(ord, S) == SelectSeq(ord, LAMBDA x : x \in S)

\* df[df[k] == v]
WhereEq(t, k, v) == SelectSeq(t, LAMBDA r : r[k] = v)

\* df.groupby(k)[col].mean() as a function of the group key
GroupMean1(t, k, col) ==
    [key \in {t[i][k] : i \in 1..Len(t)} |->
        SeriesMean(Column(WhereEq(t, k, key), col))]

\* df.groupby([k1, k2])[col].mean() as a function of the pair of group keys
GroupMean2(t, k1, k2, col) ==
    [key \in {<<t[i][k1], t[i][k2]>> : i \in 1..Len(t)} |->
        SeriesMean(Column(SelectSeq(t, LAMBDA r : r[k1] = key[1] /\ r[k2] = key[2]), col))]

\* a value list that leaves the missing cells out instead of filling them with 0
BarsDropMissing(stats, eng, order, engFirst) ==
    LET key(c) == IF engFirst THEN <<eng, c>> ELSE <<c, eng>>
        present == SelectSeq(order, LAMBDA c : key(c) \in DOMAIN stats)
    IN [i \in 1..Len(present) |-> stats[key(present[i])]]

\* [stats.loc[c] if c in stats.index else 0 for c in order], one engine's bars
BarsOf(stats, eng, order, engFirst) ==
    [i \in 1..Len(order) |->
        LET key == IF engFirst THEN <<eng, order[i]>> ELSE <<order[i], eng>>
        IN IF key \in DOMAIN stats THEN stats[key] ELSE ZeroF]


\* the permutations of a finite set, as sequences
RECURSIVE Perms(_)
Perms(S) ==
    IF S = {} THEN {<<>>}
    ELSE UNION {{<<x>> \o p : p \in Perms(S \ {x})} : x \in S}

\* position of x in the sequence q
RECURSIVE IndexOf(_, _)
IndexOf(q, x) == IF Head(q) = x THEN 1 ELSE 1 + IndexOf(Tail(q), x)

\* the keys of S sorted by val, ascending (desc = FALSE) or descending, NaN last
\* (sort_values, np.argsort); tie is the order in which the sort leaves keys of
\* equal value, which the sorting algorithm does not fix
RECURSIVE SortByValue(_, _, _, _)
SortByValue(S, val, tie, desc) ==
    IF S = {} THEN <<>>
    ELSE LET before(a, b) == IF desc THEN LtF(val[b], val[a]) ELSE LtF(val[a], val[b])
             first == {x \in S : /\ \A y \in S : ~before(y, x)
                                 /\ (NotNa(val[x]) \/ \A y \in S : ~NotNa(val[y]))}
             m == CHOOSE x \in first :
                      \A y \in first : IndexOf(tie, x) <= IndexOf(tie, y)
         IN <<m>> \o SortByValue(S \ {m}, val, tie, desc)

\* the concatenation of a sequence of sequences
RECURSIVE Concat(_)
Concat(ss) == IF ss = <<>> THEN <<>> ELSE Head(ss) \o Concat(Tail(ss))

\* rows["ops_per_sec"].mean()
MeanOps(rows) == SeriesMean(Column(rows, "ops_per_sec"))

\* is the sequence of integers strictly ascending
StrictlyAscending(xs) == \A i, j \in 1..Len(xs) : i < j => xs[i] < xs[j]

\* rows.groupby(param)["ops_per_sec"].mean() with the group keys in order of
\* first appearance, no sort applied
SweepSeriesUnsorted(rows, param) ==
    LET xs == Unique(Column(rows, param))
    IN [x |-> xs,
        y |-> [i \in 1..Len(xs) |-> MeanOps(WhereEq(rows, param, xs[i]))]]

\* rows.groupby(param)["ops_per_sec"].mean().reset_index().sort_values(param):
\* one point per distinct value of the column, ascending
SweepSeries(rows, param) ==
    LET xs == SortedInts(Range(Column(rows, param)))
    IN [x |-> xs,
        y |-> [i \in 1..Len(xs) |-> MeanOps(WhereEq(rows, param, xs[i]))]]

\* rows[col] = vals: the rows with one more column
AddColumn(rows, col, vals) ==
    [i \in 1..Len(rows) |->
        [f \in DOMAIN rows[i] \cup {col} |-> IF f = col THEN vals[i] ELSE rows[i][f]]]

\* df[(df["engine"] == e) & (df["operation"] == op)]["ops_per_sec"].mean()
OpMean(t, op, e) == MeanOps(SelectSeq(t, LAMBDA r : r.operation = op /\ r.engine = e))
-----------------------------------------------------------------------------
(* Names: engines, operations, test names, CSV text of numbers.            *)

EngineOrder == <<"rocksdb", "tidesdb">>
OpAlpha == <<"DELETE", "GET", "ITER", "PUT", "RANGE", "SEEK", "get", "put">>
ops_order == <<"PUT", "GET", "DELETE", "SEEK", "RANGE">>

\* str.lower() / str.upper() on the spellings that occur in the tables
LowerOf == ("tidesdb" :> "tidesdb") @@ ("rocksdb" :> "rocksdb")
           @@ ("TidesDB" :> "tidesdb") @@ ("RocksDB" :> "rocksdb")
           @@ ("PUT" :> "put") @@ ("GET" :> "get") @@ ("DELETE" :> "delete")
           @@ ("SEEK" :> "seek") @@ ("RANGE" :> "range") @@ ("ITER" :> "iter")
UpperOf == ("PUT" :> "PUT") @@ ("GET" :> "GET") @@ ("put" :> "PUT") @@ ("get" :> "GET")
StrLower(s) == IF s \in DOMAIN LowerOf THEN LowerOf[s] ELSE s
StrUpper(s) == IF s \in DOMAIN UpperOf THEN UpperOf[s] ELSE s

\* str.strip() on the header names that occur with blanks around them
StripOf == (" engine" :> "engine") @@ ("test_name " :> "test_name")
           @@ (" ops_per_sec " :> "ops_per_sec")
StrStrip(s) == IF s \in DOMAIN StripOf THEN StripOf[s] ELSE s

DigitVal == ("0" :> 0) @@ ("1" :> 1) @@ ("2" :> 2) @@ ("3" :> 3) @@ ("4" :> 4)
            @@ ("5" :> 5) @@ ("6" :> 6) @@ ("7" :> 7) @@ ("8" :> 8) @@ ("9" :> 9)

IsDigit(c) == c \in DOMAIN DigitVal

\* pd.to_numeric / astype(int) of a string of decimal digits
RECURSIVE DigitsToNat(_)
DigitsToNat(ds) ==
    IF ds = <<>> THEN 0
    ELSE 10 * DigitsToNat(SubSeq(ds, 1, Len(ds) - 1)) + DigitVal[ds[Len(ds)]]

\* str.extract(r'(\d+)'): the first run of digits of the name, <<>> when the
\* name has no digit
RECURSIVE DigitRunAt(_, _)
DigitRunAt(s, i) ==
    IF i > Len(s) \/ ~IsDigit(s[i]) THEN <<>> ELSE <<s[i]>> \o DigitRunAt(s, i + 1)

FirstDigitRun(s) ==
    LET I == {i \in 1..Len(s) : IsDigit(s[i])}
    IN IF I = {} THEN <<>> ELSE DigitRunAt(s, CHOOSE i \in I : \A j \in I : i <= j)

\* str.extract(prefix + r'(\d+)'): the digits that follow the first occurrence
\* of prefix followed by a digit, <<>> when there is none
DigitsAfter(s, prefix) ==
    LET I == {i \in 1..(Len(s) - 1) : s[i] = prefix /\ IsDigit(s[i + 1])}
    IN IF I = {} THEN <<>> ELSE DigitRunAt(s, 1 + CHOOSE i \in I : \A j \in I : i <= j)

\* str.startswith(prefix)
StartsWith(s, prefix) == s # <<>> /\ s[1] = prefix

\* no chart written by the routine
NoChart(name) == [chart |-> name, written |-> FALSE]

-----------------------------------------------------------------------------
(* The run: the table is loaded, then the routines of pc run in order.     *)

\* all tables of at most n rows drawn from Rows
TablesUpTo(Rows, n) == UNION {[1..k -> Rows] : k \in 0..n}

\* the columns of the result files of the fixtures when none is missing; a column
\* outside this set (cv_percent, stddev_us, pattern, workload, write_amp, ...)
\* is in no fixture
AllColumns ==
    {"engine", "operation", "test_name", "batch_size", "value_size",
     "ops_per_sec", "avg_latency_us", "p50_us", "p95_us", "p99_us"}

\* a CSV row; test_name is a sequence of tokens (a digit is a token of its own
\* where a script parses the name), batch_size the digits of the cell
Row(e, o, t, v, b) ==
    [engine |-> e, operation |-> o, test_name |-> t, ops_per_sec |-> v,
     batch_size |-> b, value_size |-> <<"6", "4">>]

\* the file system as the run sees it: whether the CSV path names a file,
\* whether the output directory has been created, the output files written so
\* far in order (path, the routine that wrote it, the routine whose figure it
\* holds), the files that were in the output directory before the run
CsvFound == [exists |-> TRUE, made |-> FALSE, files |-> <<>>, old |-> {}]

\* pyplot's process-wide state: the open figures in the order they were last
\* made current, each named by the routine that created it
NoFigures == [open |-> <<>>]

\* plt.gcf(): the figure made current last, "none" when no figure is open
gcf(p) == IF p.open = <<>> THEN "none" ELSE p.open[Len(p.open)]

\* where each worker unit is in its routine; main itself runs the routines one
\* after the other and has no worker units
NoWorkers == [r \in {} |-> "start"]

\* the command line after parse_args(): --no-pdf is an option of
\* tidesdb_rocksdb.py only
NoArgs == [no_pdf |-> FALSE]

\* the files a finished chart leaves on disk, each a pair of stem and
\* extension, written by routine name; a chart that lists no files is one
\* PNG, and in tidesdb_rocksdb.py a PNG and then a PDF
FilesOf(chart, name) ==
    IF ~chart.written THEN <<>>
    ELSE IF "files" \in DOMAIN chart
         THEN [i \in 1..Len(chart.files) |-> [path |-> chart.files[i], by |-> name, fig |-> name]]
    ELSE IF script = "tidesdb_rocksdb"
         THEN <<[path |-> <<chart.chart, "png">>, by |-> name, fig |-> name],
                [path |-> <<chart.chart, "pdf">>, by |-> name, fig |-> name]>>
    ELSE <<[path |-> <<chart.chart, "png">>, by |-> name, fig |-> name]>>

\* the routines of visualize_extensive.py that create their figure first and
\* return on an empty selection without closing it
ExtSkipsWithFigure ==
    {"plot_threads", "plot_batch", "plot_value_size", "plot_summary", "plot_range",
     "plot_key_size"}

\* the figures routine name leaves open when it returns chart: every other
\* return path creates no figure or closes the one it created
LeftOpen(name, chart) ==
    IF script = "visualize_extensive" /\ name \in ExtSkipsWithFigure /\ ~chart.written
    THEN <<name>> ELSE <<>>

\* the outcome of the first call of each routine called so far in this process
NoCalls == [r \in {} |-> [chart |-> "none", written |-> FALSE]]

\* the calls so far and now the one of routine name returning chart
Called(name, chart) ==
    IF name \in DOMAIN seen THEN seen ELSE (name :> chart) @@ seen

\* a routine of the script is next
At(s, name) == script = s /\ pc # <<>> /\ Head(pc) = name

\* a return of a routine that had added its derived column to the table itself
\* and not to a copy
ReturnAddingColumn(chart) ==
    /\ out' = chart
    /\ pc' = Tail(pc)
    /\ status' = IF Tail(pc) = <<>> THEN "exit0" ELSE "running"
    /\ fs' = [fs EXCEPT !.files = @ \o FilesOf(chart, Head(pc))]
    /\ df' = AddColumn(df, "derived", [i \in 1..Len(df) |-> 0])
    /\ seen' = Called(Head(pc), chart)
    /\ plt' = [plt EXCEPT !.open = @ \o LeftOpen(Head(pc), chart)]
    /\ UNCHANGED <<script, csv, columns, workers, args>>

\* a return of a routine that skips its chart when it has been called before
ReturnSkippingSecondCall(chart) ==
    /\ out' = IF Head(pc) \in DOMAIN seen THEN NoChart(chart.chart) ELSE chart
    /\ pc' = Tail(pc)
    /\ status' = IF Tail(pc) = <<>> THEN "exit0" ELSE "running"
    /\ fs' = [fs EXCEPT !.files = @ \o FilesOf(out', Head(pc))]
    /\ seen' = Called(Head(pc), chart)
    /\ plt' = [plt EXCEPT !.open = @ \o LeftOpen(Head(pc), chart)]
    /\ UNCHANGED <<script, csv, columns, df, workers, args>>

\* the routine returns with its chart; after the last routine main returns and
\* the process exits with status zero
Return(chart) ==
    /\ out' = chart
    /\ pc' = Tail(pc)
    /\ status' = IF Tail(pc) = <<>> THEN "exit0" ELSE "running"
    /\ fs' = [fs EXCEPT !.files = @ \o FilesOf(chart, Head(pc))]
    /\ seen' = Called(Head(pc), chart)
    /\ plt' = [plt EXCEPT !.open = @ \o LeftOpen(Head(pc), chart)]
    /\ UNCHANGED <<script, csv, columns, df, workers, args>>

\* the routine raises: nothing catches the exception, the run ends in a traceback
Raise(name) ==
    /\ out' = [chart |-> name, written |-> FALSE]
    /\ pc' = <<>>
    /\ status' = "traceback"
    /\ UNCHANGED <<script, csv, columns, df, fs, plt, seen, workers, args>>
-----------------------------------------------------------------------------
(* graphgen.py                                                             *)

\* to_numeric over the numeric columns, then
\* dropna(subset=["ops_per_sec", "engine", "operation"])
\* the columns ensure_columns builds a test name from, in its order
descriptor_cols ==
    <<"workload", "pattern", "operation", "num_operations", "threads", "batch_size",
      "key_size", "value_size", "range_size", "sync_enabled">>

\* df[col].astype(str) of one cell, as name tokens: an operation is one
\* token, a blank cell reads "nan", a name or a number is its tokens
astype_str(col, cell) ==
    IF col = "operation" THEN <<cell>>
    ELSE IF cell = <<>> THEN <<"nan">>
    ELSE cell

\* parts[0] + "_" + parts[1] + ...
RECURSIVE JoinParts(_)
JoinParts(parts) ==
    IF Len(parts) = 1 THEN parts[1]
    ELSE JoinParts(SubSeq(parts, 1, Len(parts) - 1)) \o <<"_">> \o parts[Len(parts)]

\* a table that has a test_name keeps it; else every row gets the cells of
\* its descriptor columns joined with "_", or "unknown" when the header has
\* none of them
ensure_columns(raw, cols) ==
    IF "test_name" \in cols THEN raw
    ELSE LET present == SelectSeq(descriptor_cols, LAMBDA c : c \in cols)
             name(r) == IF present = <<>> THEN <<"unknown">>
                        ELSE JoinParts([k \in 1..Len(present) |-> astype_str(present[k], r[present[k]])])
         IN [i \in 1..Len(raw) |-> ("test_name" :> name(raw[i])) @@ raw[i]]

GraphgenLoad(raw) ==
    LET num == [i \in 1..Len(raw) |->
                   [raw[i] EXCEPT !.batch_size = DigitsToNat(@),
                                  !.value_size = DigitsToNat(@)]]
    IN SelectSeq(num, LAMBDA r : r.ops_per_sec # NaN)

max_tests == 12

\* top_tests returning the slowest tests first
top_tests_ascending(t, op, tie) ==
    LET subset == WhereEq(t, "operation", op)
        by_test == GroupMean1(subset, "test_name", "ops_per_sec")
        sorted == SortByValue(DOMAIN by_test, by_test, tie, FALSE)
    IN IF Len(sorted) <= max_tests THEN sorted ELSE SubSeq(sorted, 1, max_tests)

top_tests(t, op, tie) ==
    LET subset == WhereEq(t, "operation", op)
        by_test == GroupMean1(subset, "test_name", "ops_per_sec")
        \* sort_values(ascending=False); tie orders the tests of equal mean
        sorted == SortByValue(DOMAIN by_test, by_test, tie, TRUE)
    IN IF Len(sorted) <= max_tests THEN sorted ELSE SubSeq(sorted, 1, max_tests)

\* sorted([op for op in df["operation"].dropna().unique() if op != "ITER"])
NonIterOps(t) == SortedBy(OpAlpha, Range(Column(t, "operation")) \ {"ITER"})

plot_throughput(t, tie) ==
    LET ops == NonIterOps(t)
        panel(op) ==
            LET tests == top_tests(t, op, tie)
                data == SelectSeq(t, LAMBDA r : r.test_name \in Range(tests)
                                                /\ r.operation = op)
                stats == GroupMean2(data, "test_name", "engine", "ops_per_sec")
                engines == SortedBy(EngineOrder, {k[2] : k \in DOMAIN stats})
            IN [visible |-> data # <<>>,
                order |-> tests,
                engines |-> engines,
                vals |-> [e \in Range(engines) |-> BarsOf(stats, e, tests, FALSE)]]
    IN IF ops = <<>> THEN NoChart("throughput_overview")
       ELSE [chart |-> "throughput_overview", written |-> TRUE,
             panels |-> [op \in Range(ops) |-> panel(op)]]

plot_operation_mix(t) ==
    LET df_filtered == SelectSeq(t, LAMBDA r : r.operation # "ITER")
        stats == GroupMean2(df_filtered, "engine", "operation", "ops_per_sec")
        engines == SortedBy(EngineOrder, {k[1] : k \in DOMAIN stats})
        \* stats is sorted by (engine, operation); unique() keeps first appearance
        statOps == [i \in 1..Len(engines) |->
                       SortedBy(OpAlpha, {k[2] : k \in {q \in DOMAIN stats : q[1] = engines[i]}})]
        ops == Unique(IF Len(engines) = 0 THEN <<>>
                      ELSE IF Len(engines) = 1 THEN statOps[1]
                      ELSE statOps[1] \o statOps[2])
    IN IF df_filtered = <<>> THEN NoChart("operation_mix")
       ELSE [chart |-> "operation_mix", written |-> TRUE,
             order |-> ops, engines |-> engines,
             vals |-> [e \in Range(engines) |-> BarsOf(stats, e, ops, TRUE)]]

\* [op for op in ops_order if op in df["operation"].values]
AvailableOps(t) == SelectSeq(ops_order, LAMBDA op : op \in Range(Column(t, "operation")))

plot_engine_comparison(t) ==
    LET available_ops == AvailableOps(t)
        sel == SelectSeq(t, LAMBDA r : r.operation \in Range(available_ops))
        stats == GroupMean2(sel, "engine", "operation", "ops_per_sec")
        engines == SortedBy(EngineOrder, {k[1] : k \in DOMAIN stats})
    IN IF available_ops = <<>> \/ Len(engines) < 2 THEN NoChart("engine_comparison")
       ELSE [chart |-> "engine_comparison", written |-> TRUE,
             order |-> available_ops, engines |-> engines,
             vals |-> [e \in Range(engines) |-> BarsOf(stats, e, available_ops, TRUE)]]

plot_param_sweep(t, param, op_filter) ==
    LET subset == WhereEq(t, "operation", op_filter)
        engines == SortedBy(EngineOrder, Range(Column(subset, "engine")))
    IN IF Cardinality(Range(Column(subset, param))) < 2
       THEN NoChart("sweep")
       ELSE [chart |-> "sweep", written |-> TRUE, op |-> op_filter, param |-> param,
             engines |-> engines,
             series |-> [e \in Range(engines) |->
                            SweepSeries(WhereEq(subset, "engine", e), param)]]

sweep_params == <<"threads", "batch_size", "value_size", "key_size">>

\* the loop at the end of generate_graphs: for op in available_ops (ITER
\* skipped), for param in sweep_params, plot_param_sweep when the column is there
\* and the operation has two values of it or more; one chart per such pair
\* (the range_size sweep that follows the loop needs a range_size column)
param_sweeps(t, cols) ==
    LET available_ops == Range(Unique(Column(t, "operation"))) \ {"ITER"}
        pairs == {p \in available_ops \X (Range(sweep_params) \cap cols) :
                     Cardinality(Range(Column(WhereEq(t, "operation", p[1]), p[2]))) >= 2}
        \* the loop order: operations as unique() lists them, then sweep_params
        looped == Concat([i \in 1..Len(Unique(Column(t, "operation"))) |->
                             [j \in 1..Len(sweep_params) |->
                                 <<Unique(Column(t, "operation"))[i], sweep_params[j]>>]])
        drawn == SelectSeq(looped, LAMBDA p : p \in pairs)
    IN IF pairs = {} THEN NoChart("sweeps")
       ELSE [chart |-> "sweeps", written |-> TRUE,
             charts |-> [p \in pairs |-> plot_param_sweep(t, p[2], p[1])],
             \* f"sweep_{op_filter.lower()}_{param}.png"
             files |-> [i \in 1..Len(drawn) |->
                          <<"sweep", StrLower(drawn[i][1]), drawn[i][2], "png">>]]

\* one chart per op of ["PUT", "GET"] that has two value sizes or more
plot_value_size_impact(t) ==
    LET ops == SelectSeq(<<"PUT", "GET">>,
                   LAMBDA op : /\ op \in Range(Column(t, "operation"))
                               /\ Cardinality(Range(Column(WhereEq(t, "operation", op),
                                                          "value_size"))) >= 2)
        chartOf(op) ==
            LET subset == WhereEq(t, "operation", op)
                engines == SortedBy(EngineOrder, Range(Column(subset, "engine")))
            IN [engines |-> engines,
                series |-> [e \in Range(engines) |->
                               SweepSeries(WhereEq(subset, "engine", e), "value_size")]]
    IN IF Cardinality(Range(Column(t, "value_size"))) < 2 \/ ops = <<>>
       THEN NoChart("value_size")
       ELSE [chart |-> "value_size", written |-> TRUE,
             charts |-> [op \in Range(ops) |-> chartOf(op)],
             files |-> [i \in 1..Len(ops) |-> <<"value_size", StrLower(ops[i]), "png">>]]

\* the tests whose mean for some operation is also the mean of another test
TiedTests(t) ==
    LET mean(x, op) == MeanOps(SelectSeq(t, LAMBDA r : r.test_name = x /\ r.operation = op))
        has(x, op) == \E i \in 1..Len(t) : t[i].test_name = x /\ t[i].operation = op
        names == Range(Column(t, "test_name"))
    IN {x \in names : \E op \in Range(Column(t, "operation")), y \in names \ {x} :
                          has(x, op) /\ has(y, op) /\ mean(x, op) = mean(y, op)}

\* the orders in which sort_values may leave tests of equal mean: every order
\* of the tied tests; the place of a test that ties with none changes nothing
TieOrders(t) ==
    LET rest == SelectSeq(Unique(Column(t, "test_name")), LAMBDA x : x \notin TiedTests(t))
    IN {p \o rest : p \in Perms(TiedTests(t))}

Run_plot_throughput ==
    /\ At("graphgen", "plot_throughput")
    /\ \E tie \in TieOrders(df) : Return(plot_throughput(df, tie))

Run_plot_operation_mix ==
    /\ At("graphgen", "plot_operation_mix")
    /\ Return(plot_operation_mix(df))

Run_plot_engine_comparison ==
    /\ At("graphgen", "plot_engine_comparison")
    /\ Return(plot_engine_comparison(df))

Run_plot_param_sweep ==
    /\ At("graphgen", "plot_param_sweep")
    /\ Return(param_sweeps(df, columns))

\* the guard without the test of the denominator
SpeedupGuardNoZeroTest(t_ops, r_ops) == NotNa(t_ops) /\ NotNa(r_ops)

\* pd.notna(t) and pd.notna(r) and r > 0
SpeedupGuard(t_ops, r_ops) == NotNa(t_ops) /\ NotNa(r_ops) /\ Gt0(r_ops)

plot_speedup_ratios(t) ==
    LET engines == Range(Column(t, "engine"))
        available_ops == AvailableOps(t)
        mean(e, op) == OpMean(t, op, e)
        kept == SelectSeq(available_ops,
                    LAMBDA op : SpeedupGuard(mean("tidesdb", op), mean("rocksdb", op)))
    IN IF "tidesdb" \notin engines \/ "rocksdb" \notin engines
          \/ available_ops = <<>> \/ kept = <<>>
       THEN NoChart("speedup_ratios")
       ELSE [chart |-> "speedup_ratios", written |-> TRUE,
             ops |-> kept,
             ratios |-> [i \in 1..Len(kept) |->
                            DivF(mean("tidesdb", kept[i]), mean("rocksdb", kept[i]))]]

Run_plot_speedup_ratios ==
    /\ At("graphgen", "plot_speedup_ratios")
    /\ Return(plot_speedup_ratios(df))

Run_plot_value_size_impact ==
    /\ At("graphgen", "plot_value_size_impact")
    /\ IF "value_size" \in columns THEN Return(plot_value_size_impact(df))
       ELSE Return(NoChart("value_size"))
-----------------------------------------------------------------------------
(* plot_tidesdb_rocksdb.py                                                 *)

\* df[~test_name.str.contains('_populate')], then operation != 'ITER'
ptr_load_data(raw) ==
    SelectSeq(raw, LAMBDA r : /\ ~(\E i \in 1..Len(r.test_name) : r.test_name[i] = "_populate")
                              /\ r.operation # "ITER")

\* val(df, engine, test_name, operation, 'ops_per_sec'): 0 when no row matches,
\* else the cell of the first matching row (row.iloc[0]), 0 when it is NaN
val(t, engine, test_name, operation) ==
    LET row == SelectSeq(t, LAMBDA r : r.engine = engine /\ r.test_name = test_name
                                       /\ r.operation = operation)
    IN IF row = <<>> THEN ZeroF
       ELSE IF row[1].ops_per_sec = NaN THEN ZeroF
       ELSE ToFloat(row[1].ops_per_sec)

\* val(tidesdb) > 0 or val(rocksdb) > 0
HasData(t, tn, op) == Gt0(val(t, "tidesdb", tn, op)) \/ Gt0(val(t, "rocksdb", tn, op))

speedup_tests ==
    << <<"write_seq_10M_t8_b1000", "PUT", "Seq Write (10M, 8t)">>,
       <<"write_random_10M_t8_b1000", "PUT", "Random Write (10M, 8t)">>,
       <<"write_zipfian_5M_t8_b1000", "PUT", "Zipfian Write (5M, 8t)">>,
       <<"read_random_10M_t8", "GET", "Random Read (10M, 8t)">>,
       <<"mixed_random_5M_t8_b1000", "PUT", "Mixed Write (5M, 8t)">>,
       <<"delete_random_5M_t8_b1000", "DELETE", "Delete (5M, 8t)">>,
       <<"seek_random_5M_t8", "SEEK", "Random Seek (5M, 8t)">>,
       <<"seek_seq_5M_t8", "SEEK", "Seq Seek (5M, 8t)">>,
       <<"range_random_100_1M_t8", "RANGE", "Range 100 (1M, 8t)">>,
       <<"range_random_1000_500K_t8", "RANGE", "Range 1000 (500K, 8t)">>,
       <<"write_large_values_1M_k256_v4096_t8_b1000", "PUT", "Large Val Write (1M, 8t)">>,
       <<"write_small_values_50M_k16_v64_t8_b1000", "PUT", "Small Val Write (50M, 8t)">>,
       <<"write_seq_40M_t16_b1000", "PUT", "Seq Write (40M, 16t)">>,
       <<"write_random_40M_t16_b1000", "PUT", "Random Write (40M, 16t)">>,
       <<"read_random_40M_t16", "GET", "Random Read (40M, 16t)">>,
       <<"seek_random_20M_t16", "SEEK", "Random Seek (20M, 16t)">>,
       <<"seek_seq_20M_t16", "SEEK", "Seq Seek (20M, 16t)">>,
       <<"range_random_100_4M_t16", "RANGE", "Range 100 (4M, 16t)">>,
       <<"range_random_1000_2M_t16", "RANGE", "Range 1000 (2M, 16t)">>,
       <<"sync_write_random_25K_t1_b1000", "PUT", "Sync Write (25K, 1t)">>,
       <<"sync_write_random_50K_t4_b1000", "PUT", "Sync Write (50K, 4t)">>,
       <<"sync_write_random_100K_t8_b1000", "PUT", "Sync Write (100K, 8t)">>,
       <<"sync_write_random_500K_t16_b1000", "PUT", "Sync Write (500K, 16t)">> >>

\* labels and ratios grow together, one entry per test with t > 0 and r > 0
plot_speedup_summary(t) ==
    LET kept == SelectSeq(speedup_tests,
                    LAMBDA e : /\ Gt0(val(t, "tidesdb", <<e[1]>>, e[2]))
                               /\ Gt0(val(t, "rocksdb", <<e[1]>>, e[2])))
    IN [chart |-> "00_speedup_summary", written |-> TRUE,
        tests |-> [i \in 1..Len(kept) |-> <<kept[i][1]>>],
        ops |-> [i \in 1..Len(kept) |-> kept[i][2]],
        labels |-> [i \in 1..Len(kept) |-> kept[i][3]],
        ratios |-> [i \in 1..Len(kept) |->
                       DivF(val(t, "tidesdb", <<kept[i][1]>>, kept[i][2]),
                            val(t, "rocksdb", <<kept[i][1]>>, kept[i][2]))]]

write_std_tests ==
    <<"write_seq_10M_t8_b1000", "write_random_10M_t8_b1000", "write_zipfian_5M_t8_b1000">>
write_large_tests ==
    <<"write_seq_40M_t16_b1000", "write_random_40M_t16_b1000", "write_zipfian_20M_t16_b1000">>

\* one panel of paired bars: the tests of the panel and both engines' values
ValPanel(t, tests, op) ==
    [tests |-> [i \in 1..Len(tests) |-> <<tests[i]>>],
     tv |-> [i \in 1..Len(tests) |-> val(t, "tidesdb", <<tests[i]>>, op)],
     rv |-> [i \in 1..Len(tests) |-> val(t, "rocksdb", <<tests[i]>>, op)]]

plot_write_throughput(t) ==
    LET std_avail == SelectSeq(write_std_tests, LAMBDA n : HasData(t, <<n>>, "PUT"))
        large_avail == SelectSeq(write_large_tests, LAMBDA n : HasData(t, <<n>>, "PUT"))
        panels == (IF std_avail # <<>> THEN <<ValPanel(t, std_avail, "PUT")>> ELSE <<>>)
                  \o (IF large_avail # <<>> THEN <<ValPanel(t, large_avail, "PUT")>> ELSE <<>>)
    IN IF std_avail = <<>> /\ large_avail = <<>> THEN NoChart("01_write_throughput")
       ELSE [chart |-> "01_write_throughput", written |-> TRUE, panels |-> panels]

Run_ptr_plot_speedup_summary ==
    /\ At("plot_tidesdb_rocksdb", "plot_speedup_summary")
    /\ Return(plot_speedup_summary(df))

Run_ptr_plot_write_throughput ==
    /\ At("plot_tidesdb_rocksdb", "plot_write_throughput")
    /\ Return(plot_write_throughput(df))

std_batches == <<1, 10, 100, 1000, 10000>>
std_names == <<"batch_1_10M_t8", "batch_10_10M_t8", "batch_100_10M_t8",
               "batch_1000_10M_t8", "batch_10000_10M_t8">>
large_batches == <<1, 100, 1000>>
large_names == <<"batch_1_40M_t16", "batch_100_40M_t16", "batch_1000_40M_t16">>

\* [(b, n) for b, n in zip(batches, names) if val(tidesdb) > 0 or val(rocksdb) > 0]
BatchAvail(t, batches, names) ==
    LET keep == SelectSeq([i \in 1..Len(names) |-> i],
                          LAMBDA i : HasData(t, <<names[i]>>, "PUT"))
    IN [i \in 1..Len(keep) |-> <<batches[keep[i]], names[keep[i]]>>]

\* one panel: the batch sizes with data and both engines' values at each
BatchPanel(t, avail) ==
    [batches |-> [i \in 1..Len(avail) |-> avail[i][1]],
     names |-> [i \in 1..Len(avail) |-> avail[i][2]],
     tv |-> [i \in 1..Len(avail) |-> val(t, "tidesdb", <<avail[i][2]>>, "PUT")],
     rv |-> [i \in 1..Len(avail) |-> val(t, "rocksdb", <<avail[i][2]>>, "PUT")]]

plot_batch_scaling(t) ==
    LET std_avail == BatchAvail(t, std_batches, std_names)
        large_avail == BatchAvail(t, large_batches, large_names)
        panels == (IF std_avail # <<>> THEN <<BatchPanel(t, std_avail)>> ELSE <<>>)
                  \o (IF large_avail # <<>> THEN <<BatchPanel(t, large_avail)>> ELSE <<>>)
    IN IF std_avail = <<>> /\ large_avail = <<>> THEN NoChart("06_batch_size_scaling")
       ELSE [chart |-> "06_batch_size_scaling", written |-> TRUE, panels |-> panels]

Run_ptr_plot_batch_scaling ==
    /\ At("plot_tidesdb_rocksdb", "plot_batch_scaling")
    /\ Return(plot_batch_scaling(df))

-----------------------------------------------------------------------------
(* visualize.py                                                            *)

\* load_data: the table as read
vis_load_data(raw) == raw

\* pivot_table(index='test_name', columns='engine', values='ops_per_sec',
\* aggfunc='mean'): the cells whose mean is not NaN; every other cell of the
\* frame is NaN, rows and columns without a cell are dropped
PivotCells(t) ==
    LET g == GroupMean2(t, "test_name", "engine", "ops_per_sec")
    IN [k \in {q \in DOMAIN g : NotNa(g[q])} |-> g[k]]

plot_summary_heatmap(t, tie) ==
    LET pivot == PivotCells(t)
        index == {k[1] : k \in DOMAIN pivot}
        cols == {k[2] : k \in DOMAIN pivot}
        cell(test, e) == IF <<test, e>> \in DOMAIN pivot THEN pivot[<<test, e>>] ELSE NaNF
        ratio(test) == DivF(cell(test, "tidesdb"), cell(test, "rocksdb"))
        \* (pivot['tidesdb'] / pivot['rocksdb']).dropna()
        speedup == [test \in {x \in index : NotNa(ratio(x))} |-> ratio(test)]
        sorted == SortByValue(DOMAIN speedup, speedup, tie, FALSE)
    IN IF index = {} \/ "tidesdb" \notin cols \/ "rocksdb" \notin cols
          \/ DOMAIN speedup = {}
       THEN NoChart("fig8_summary_heatmap")
       ELSE [chart |-> "fig8_summary_heatmap", written |-> TRUE,
             tests |-> sorted,
             ratios |-> [i \in 1..Len(sorted) |-> speedup[sorted[i]]]]

\* one row per test with rows of both engines; Speedup is t / r when r > 0, else 0
vis_generate_summary_table(t) ==
    LET tests == Unique(Column(t, "test_name"))
        has(test, e) == \E i \in 1..Len(t) : t[i].test_name = test /\ t[i].engine = e
        kept == SelectSeq(tests, LAMBDA x : has(x, "tidesdb") /\ has(x, "rocksdb"))
        mean(test, e) == MeanOps(SelectSeq(t, LAMBDA r : r.test_name = test /\ r.engine = e))
        line(test) ==
            LET tidesdb_ops == mean(test, "tidesdb")
                rocksdb_ops == mean(test, "rocksdb")
            IN [test |-> test, op |-> "ALL",
                tidesdb |-> tidesdb_ops, rocksdb |-> rocksdb_ops,
                speedup |-> IF Gt0(rocksdb_ops) THEN DivF(tidesdb_ops, rocksdb_ops)
                            ELSE ZeroF]
    IN IF kept = <<>> THEN NoChart("vis_summary_table")
       ELSE [chart |-> "vis_summary_table", written |-> TRUE,
             rows |-> [i \in 1..Len(kept) |-> line(kept[i])]]

Run_plot_summary_heatmap ==
    /\ At("visualize", "plot_summary_heatmap")
    /\ \E tie \in Perms(Range(Column(df, "test_name"))) :
          Return(plot_summary_heatmap(df, tie))

Run_vis_generate_summary_table ==
    /\ At("visualize", "generate_summary_table")
    /\ Return(vis_generate_summary_table(df))

\* engine_data.sort_values(key): the rows of the engine ordered by the extracted
\* value, every row a point of the line; tie is the order the sort gives to rows
\* of equal value
SortedRowPoints(rows, e, prefix, tie) ==
    LET I == {i \in 1..Len(rows) : rows[i].engine = e}
        key == [i \in I |-> Frac(DigitsToNat(DigitsAfter(rows[i].test_name, prefix)), 1)]
        order == SortByValue(I, key, SelectSeq(tie, LAMBDA i : i \in I), FALSE)
    IN [x |-> [k \in 1..Len(order) |->
                  DigitsToNat(DigitsAfter(rows[order[k]].test_name, prefix))],
        y |-> [k \in 1..Len(order) |-> ToFloat(rows[order[k]].ops_per_sec)]]

\* the chart of the rows whose test name starts with prefix: one line per engine
\* that has such rows
RowPointsChart(name, t, prefix, tie) ==
    LET rows == SelectSeq(t, LAMBDA r : StartsWith(r.test_name, prefix))
        engines == SelectSeq(<<"tidesdb", "rocksdb">>,
                             LAMBDA e : e \in Range(Column(rows, "engine")))
    IN IF rows = <<>> THEN NoChart(name)
       ELSE [chart |-> name, written |-> TRUE, engines |-> engines,
             series |-> [e \in Range(engines) |-> SortedRowPoints(rows, e, prefix, tie)]]

plot_batch_size_impact(t, tie) == RowPointsChart("fig3_batch_size_impact", t, "batch_", tie)
plot_thread_scaling(t, tie) == RowPointsChart("fig4_thread_scaling", t, "threads_", tie)

\* astype(int) raises on a name where no digit follows the prefix
vis_ExtractRaises(t, prefix) ==
    \E i \in 1..Len(t) :
        StartsWith(t[i].test_name, prefix) /\ DigitsAfter(t[i].test_name, prefix) = <<>>

Run_plot_batch_size_impact ==
    /\ At("visualize", "plot_batch_size_impact")
    /\ IF vis_ExtractRaises(df, "batch_") THEN Raise("fig3_batch_size_impact")
       ELSE \E tie \in Perms(1..Len(df)) : Return(plot_batch_size_impact(df, tie))

Run_plot_thread_scaling ==
    /\ At("visualize", "plot_thread_scaling")
    /\ IF vis_ExtractRaises(df, "threads_") THEN Raise("fig4_thread_scaling")
       ELSE \E tie \in Perms(1..Len(df)) : Return(plot_thread_scaling(df, tie))

-----------------------------------------------------------------------------
(* visualize_extensive.py                                                  *)

ext_load_data(raw) == raw

\* for test in df['test_name'].unique():
\*     for op in df[df['test_name']==test]['operation'].unique()
TestOpPairs(t) ==
    LET tests == Unique(Column(t, "test_name"))
    IN Concat([i \in 1..Len(tests) |->
                  LET ops == Unique(Column(WhereEq(t, "test_name", tests[i]), "operation"))
                  IN [j \in 1..Len(ops) |-> <<tests[i], ops[j]>>]])

\* the mean of one engine's rows of a (test, operation) pair
PairMean(t, p, e) ==
    MeanOps(SelectSeq(t, LAMBDA r : /\ r.test_name = p[1] /\ r.engine = e
                                   /\ r.operation = p[2]))

\* if r > 0: speedups.append(t/r); then sort_values('speedup')
plot_summary(t, tie) ==
    LET kept == SelectSeq(TestOpPairs(t), LAMBDA p : Gt0(PairMean(t, p, "rocksdb")))
        speedup == [p \in Range(kept) |->
                       DivF(PairMean(t, p, "tidesdb"), PairMean(t, p, "rocksdb"))]
        sorted == SortByValue(Range(kept), speedup, tie, FALSE)
    IN IF kept = <<>> THEN NoChart("fig10_summary")
       ELSE [chart |-> "fig10_summary", written |-> TRUE,
             entries |-> sorted,
             ratios |-> [i \in 1..Len(sorted) |-> speedup[sorted[i]]]]

table_ops == <<"PUT", "GET", "SEEK", "DELETE", "RANGE">>

\* one row per (test, op) with rows of both engines; Speedup is t.mean() / r.mean()
generate_tables(t) ==
    LET tests == Unique(Column(t, "test_name"))
        pairs == Concat([i \in 1..Len(tests) |->
                            [j \in 1..Len(table_ops) |-> <<tests[i], table_ops[j]>>]])
        has(p, e) == \E i \in 1..Len(t) :
                        t[i].test_name = p[1] /\ t[i].engine = e /\ t[i].operation = p[2]
        kept == SelectSeq(pairs, LAMBDA p : has(p, "tidesdb") /\ has(p, "rocksdb"))
        line(p) == [test |-> p[1], op |-> p[2],
                    tidesdb |-> PairMean(t, p, "tidesdb"),
                    rocksdb |-> PairMean(t, p, "rocksdb"),
                    speedup |-> DivF(PairMean(t, p, "tidesdb"), PairMean(t, p, "rocksdb"))]
    IN IF kept = <<>> THEN NoChart("ext_summary_table")
       ELSE [chart |-> "ext_summary_table", written |-> TRUE,
             rows |-> [i \in 1..Len(kept) |-> line(kept[i])]]

Run_ext_plot_summary ==
    /\ At("visualize_extensive", "plot_summary")
    /\ \E tie \in Perms(Range(TestOpPairs(df))) :
          Return(plot_summary(df, tie))

Run_ext_generate_tables ==
    /\ At("visualize_extensive", "generate_tables")
    /\ Return(generate_tables(df))

\* the two lines of a sweep chart: for eng in ['tidesdb', 'rocksdb'], the rows of
\* the engine grouped by the sweep column, averaged and sorted by it
EngineSweeps(rows, param) ==
    [e \in {"tidesdb", "rocksdb"} |-> SweepSeries(WhereEq(rows, "engine", e), param)]

\* a sweep chart over the selected rows, skipped when there is none
SweepChart(name, rows, param) ==
    IF rows = <<>> THEN NoChart(name)
    ELSE [chart |-> name, written |-> TRUE, series |-> EngineSweeps(rows, param)]

\* td['test_name'].str.extract(r'(\d+)').astype(int)
ExtractInt(rows) == [i \in 1..Len(rows) |-> DigitsToNat(FirstDigitRun(rows[i].test_name))]

\* astype(int) raises on a name without digits
ExtractRaises(rows) == \E i \in 1..Len(rows) : FirstDigitRun(rows[i].test_name) = <<>>

\* df[df['test_name'].str.startswith(prefix) & (df['operation'] == 'PUT')]
PrefixPutRows(t, prefix) ==
    SelectSeq(t, LAMBDA r : StartsWith(r.test_name, prefix) /\ r.operation = "PUT")

\* df[df['test_name'].isin(sm.keys()) & (df['operation'] == op)], with the
\* column test_name.map(sm)
MappedRows(t, sm, op, col) ==
    LET rows == SelectSeq(t, LAMBDA r : r.test_name \in DOMAIN sm /\ r.operation = op)
    IN AddColumn(rows, col, [i \in 1..Len(rows) |-> sm[rows[i].test_name]])

plot_threads(t) ==
    LET td == PrefixPutRows(t, "threads_")
    IN SweepChart("fig04_threads", AddColumn(td, "threads", ExtractInt(td)), "threads")

plot_batch(t) ==
    LET bd == PrefixPutRows(t, "batch_")
    IN SweepChart("fig05_batch", AddColumn(bd, "batch", ExtractInt(bd)), "batch")

\* the sm dictionaries: test name to sweep value
value_sm == (<<"write_small_value">> :> 64) @@ (<<"write_medium_value">> :> 1024)
            @@ (<<"write_large_value">> :> 4096) @@ (<<"write_xlarge_value">> :> 16384)
range_sm == (<<"range_", "1", "0">> :> 10) @@ (<<"range_", "1", "0", "0">> :> 100)
            @@ (<<"range_", "1", "0", "0", "0">> :> 1000)
key_sm == (<<"key_", "8", "B">> :> 8) @@ (<<"key_", "3", "2", "B">> :> 32)
          @@ (<<"key_", "6", "4", "B">> :> 64) @@ (<<"key_", "1", "2", "8", "B">> :> 128)

plot_value_size(t) == SweepChart("fig06_value", MappedRows(t, value_sm, "PUT", "vsize"), "vsize")

plot_range(t) == SweepChart("fig11_range", MappedRows(t, range_sm, "RANGE", "rsize"), "rsize")

plot_key_size(t) == SweepChart("fig12_keysize", MappedRows(t, key_sm, "PUT", "ksize"), "ksize")

Run_ext_plot_threads ==
    /\ At("visualize_extensive", "plot_threads")
    /\ IF ExtractRaises(PrefixPutRows(df, "threads_")) THEN Raise("fig04_threads")
       ELSE Return(plot_threads(df))

Run_ext_plot_batch ==
    /\ At("visualize_extensive", "plot_batch")
    /\ IF ExtractRaises(PrefixPutRows(df, "batch_")) THEN Raise("fig05_batch")
       ELSE Return(plot_batch(df))

Run_ext_plot_value_size ==
    /\ At("visualize_extensive", "plot_value_size")
    /\ Return(plot_value_size(df))

Run_ext_plot_range ==
    /\ At("visualize_extensive", "plot_range")
    /\ Return(plot_range(df))

Run_ext_plot_key_size ==
    /\ At("visualize_extensive", "plot_key_size")
    /\ Return(plot_key_size(df))

-----------------------------------------------------------------------------
(* tidesdb_rocksdb.py                                                      *)

\* engine lower-cased, operation upper-cased
load_benchmark_data(raw) ==
    [i \in 1..Len(raw) |->
        [raw[i] EXCEPT !.engine = StrLower(@), !.operation = StrUpper(@)]]

\* speedups.append(t_ops / r_ops if r_ops > 0 and t_ops > 0 else 1.0), one bar
\* per operation, the bars sorted by np.argsort(speedups)
plot_performance_heatmap(t, tie) ==
    LET operations == Unique(Column(t, "operation"))
        speedups == [op \in Range(operations) |->
                        IF Gt0(OpMean(t, op, "rocksdb")) /\ Gt0(OpMean(t, op, "tidesdb"))
                        THEN DivF(OpMean(t, op, "tidesdb"), OpMean(t, op, "rocksdb"))
                        ELSE OneF]
        sorted == SortByValue(Range(operations), speedups, tie, FALSE)
    IN IF operations = <<>> THEN NoChart("fig06_performance_heatmap")
       ELSE [chart |-> "fig06_performance_heatmap", written |-> TRUE,
             operations |-> sorted,
             speedups |-> [i \in 1..Len(sorted) |-> speedups[sorted[i]]]]

\* one row per operation with rows of both engines; Speedup is t / r when
\* r > 0, else 0
tr_generate_summary_table(t) ==
    LET operations == Unique(Column(t, "operation"))
        has(op, e) == \E i \in 1..Len(t) : t[i].operation = op /\ t[i].engine = e
        kept == SelectSeq(operations, LAMBDA op : has(op, "tidesdb") /\ has(op, "rocksdb"))
        line(op) == [test |-> <<"ALL">>, op |-> op,
                     tidesdb |-> OpMean(t, op, "tidesdb"),
                     rocksdb |-> OpMean(t, op, "rocksdb"),
                     speedup |-> IF Gt0(OpMean(t, op, "rocksdb"))
                                 THEN DivF(OpMean(t, op, "tidesdb"), OpMean(t, op, "rocksdb"))
                                 ELSE ZeroF]
    IN IF kept = <<>> THEN NoChart("tr_summary_table")
       ELSE [chart |-> "tr_summary_table", written |-> TRUE,
             files |-> << <<"summary_table", "csv">>, <<"summary_table", "tex">> >>,
             rows |-> [i \in 1..Len(kept) |-> line(kept[i])]]

Run_plot_performance_heatmap ==
    /\ At("tidesdb_rocksdb", "plot_performance_heatmap")
    /\ \E tie \in Perms(Range(Column(df, "operation"))) :
          Return(plot_performance_heatmap(df, tie))

Run_tr_generate_summary_table ==
    /\ At("tidesdb_rocksdb", "generate_summary_table")
    /\ Return(tr_generate_summary_table(df))

-----------------------------------------------------------------------------
(* graphgen.py: the routines that read latency and descriptor columns.  The *)
(* rows carry no latency value: their charts are modelled by their panels. *)

\* plt.subplots(rows, 2) with rows = ceil(len(ops) / 2): matplotlib raises
\* ValueError for zero rows, which is the case when no operation but ITER is left
SubplotsRaises(t) == NonIterOps(t) = <<>>

\* the cell of a row in a metric column: a row that does not spell the column
\* out carries its ops_per_sec number in it
MetricOf(r, c) == IF c \in DOMAIN r THEN r[c] ELSE r.ops_per_sec

\* rows.groupby("engine")[c].mean() for one engine
EngineMean(rows, e, c) ==
    LET own == WhereEq(rows, "engine", e)
    IN SeriesMean([i \in 1..Len(own) |-> MetricOf(own[i], c)])

\* one panel per operation (ITER left out), one bar or bar group per engine,
\* each bar the engine's mean of the column over the rows of the operation
OpPanels(name, t, cols) ==
    LET ops == NonIterOps(t)
    IN [chart |-> name, written |-> TRUE, ops |-> ops, cols |-> cols,
        engines |-> [op \in Range(ops) |->
                        SortedBy(EngineOrder,
                                 Range(Column(WhereEq(t, "operation", op), "engine")))],
        means |-> [op \in Range(ops) |->
                     [e \in Range(Column(WhereEq(t, "operation", op), "engine")) |->
                         [c \in Range(cols) |->
                             EngineMean(WhereEq(t, "operation", op), e, c)]]]]

plot_latency(t) == OpPanels("latency_overview", t, <<"avg_latency_us">>)

\* [c for c in ["min_us", "p50_us", "p95_us", "p99_us", "max_us"] if c in df.columns]
percent_cols(cols) ==
    SelectSeq(<<"min_us", "p50_us", "p95_us", "p99_us", "max_us">>, LAMBDA c : c \in cols)

plot_latency_percentiles(t, cols) == OpPanels("latency_percentiles", t, percent_cols(cols))

\* scatter of (ops_per_sec, avg_latency_us), one group per engine and operation
plot_latency_vs_throughput(t) ==
    LET ops == AvailableOps(t)
    IN IF ops = <<>> THEN NoChart("latency_vs_throughput")
       ELSE [chart |-> "latency_vs_throughput", written |-> TRUE,
             groups |-> {<<t[i].engine, t[i].operation>> :
                            i \in {j \in 1..Len(t) : t[j].operation \in Range(ops)}}]

\* test names in the order groupby sorts them
TestAlpha == << <<"t1">>, <<"t2">> >>

\* per operation, the tests with rows of two engines or more (the cap of ten
\* tests is beyond the fixtures) and each engine's mean throughput per test
plot_per_test_comparison(t) ==
    LET engines == Range(Column(t, "engine"))
        chartOf(op) ==
            LET op_data == WhereEq(t, "operation", op)
                stats == GroupMean2(op_data, "test_name", "engine", "ops_per_sec")
            IN {k[1] : k \in {q \in DOMAIN stats :
                                 \E q2 \in DOMAIN stats : q2[1] = q[1] /\ q2[2] # q[2]}}
        panel(op) ==
            LET tests_with_both == SortedBy(TestAlpha, chartOf(op))
                sel == SelectSeq(t, LAMBDA r : r.operation = op
                                               /\ r.test_name \in Range(tests_with_both))
                stats == GroupMean2(sel, "test_name", "engine", "ops_per_sec")
            IN [order |-> tests_with_both,
                engines |-> SortedBy(EngineOrder, engines),
                vals |-> [e \in engines |-> BarsOf(stats, e, tests_with_both, FALSE)]]
        ops == SelectSeq(AvailableOps(t), LAMBDA op : chartOf(op) # {})
    IN IF Cardinality(engines) < 2 \/ ops = <<>> THEN NoChart("per_test")
       ELSE [chart |-> "per_test", written |-> TRUE,
             tests |-> [op \in Range(ops) |-> chartOf(op)],
             panels |-> [op \in Range(ops) |-> panel(op)],
             files |-> [i \in 1..Len(ops) |-> <<"per_test", StrLower(ops[i]), "png">>]]

\* an empty text cell, which read_csv turns into NaN
Blank == ""

\* the values of the pattern and workload columns in sorted order
PatternAlpha == <<"random", "seq", "zipfian">>
WorkloadAlpha == <<"mixed", "read", "write">>

\* one chart per operation of PUT, GET, DELETE, SEEK with rows of two patterns
\* or more: each engine's mean throughput per pattern
plot_pattern_comparison(t) ==
    LET patterns == Range(Column(t, "pattern")) \ {Blank}
        ops == SelectSeq(<<"PUT", "GET", "DELETE", "SEEK">>,
                         LAMBDA op : op \in Range(Column(t, "operation")))
        panel(op) ==
            LET subset == SelectSeq(t, LAMBDA r : r.operation = op /\ r.pattern # Blank)
                stats == GroupMean2(subset, "engine", "pattern", "ops_per_sec")
                avail_patterns == SortedBy(PatternAlpha, {k[2] : k \in DOMAIN stats})
                engines == SortedBy(EngineOrder, {k[1] : k \in DOMAIN stats})
            IN [order |-> avail_patterns, engines |-> engines,
                vals |-> [e \in Range(engines) |-> BarsOf(stats, e, avail_patterns, TRUE)]]
        drawn == SelectSeq(ops, LAMBDA op : Len(panel(op).order) >= 2)
    IN IF Cardinality(patterns) < 2 \/ drawn = <<>> THEN NoChart("pattern")
       ELSE [chart |-> "pattern", written |-> TRUE,
             panels |-> [op \in Range(drawn) |-> panel(op)],
             files |-> [i \in 1..Len(drawn) |-> <<"pattern", StrLower(drawn[i]), "png">>]]

\* each engine's mean throughput per workload type
plot_workload_comparison(t) ==
    LET workloads == Range(Column(t, "workload")) \ {Blank}
        known == SelectSeq(t, LAMBDA r : r.workload # Blank)
        stats == GroupMean2(known, "engine", "workload", "ops_per_sec")
        engines == SortedBy(EngineOrder, {k[1] : k \in DOMAIN stats})
        avail_workloads == SortedBy(WorkloadAlpha, {k[2] : k \in DOMAIN stats})
    IN IF Cardinality(workloads) < 2 THEN NoChart("workload_comparison")
       ELSE [chart |-> "workload_comparison", written |-> TRUE,
             order |-> avail_workloads, engines |-> engines,
             vals |-> [e \in Range(engines) |-> BarsOf(stats, e, avail_workloads, TRUE)]]

\* the table image: per operation each engine's mean throughput and the
\* speedup, "-" (NaN here) unless both means exist and the rocksdb mean is above 0
plot_summary_table(t) ==
    LET ops == AvailableOps(t)
        engines == SortedBy(EngineOrder, Range(Column(t, "engine")))
        line(op) ==
            [op |-> op,
             tidesdb |-> OpMean(t, op, "tidesdb"),
             rocksdb |-> OpMean(t, op, "rocksdb"),
             speedup |-> IF SpeedupGuard(OpMean(t, op, "tidesdb"), OpMean(t, op, "rocksdb"))
                         THEN DivF(OpMean(t, op, "tidesdb"), OpMean(t, op, "rocksdb"))
                         ELSE NaNF]
    IN IF ops = <<>> \/ engines = <<>> THEN NoChart("summary_table")
       ELSE [chart |-> "summary_table", written |-> TRUE, engines |-> engines,
             rows |-> [i \in 1..Len(ops) |-> line(ops[i])]]

\* the ITER rows: each engine's mean throughput per test, 15 tests at most
plot_iterator_throughput(t) ==
    LET iter_data == WhereEq(t, "operation", "ITER")
        all == Unique(Column(iter_data, "test_name"))
        tests == IF Len(all) <= 15 THEN all ELSE SubSeq(all, 1, 15)
        stats == GroupMean2(iter_data, "test_name", "engine", "ops_per_sec")
        engines == SortedBy(EngineOrder, {k[2] : k \in DOMAIN stats})
    IN IF iter_data = <<>> THEN NoChart("iterator_throughput")
       ELSE [chart |-> "iterator_throughput", written |-> TRUE,
             order |-> tests, engines |-> engines,
             vals |-> [e \in Range(engines) |-> BarsOf(stats, e, tests, FALSE)]]

Run_plot_latency ==
    /\ At("graphgen", "plot_latency")
    /\ IF "avg_latency_us" \notin columns THEN Return(NoChart("latency_overview"))
       ELSE IF SubplotsRaises(df) THEN Raise("latency_overview")
       ELSE Return(plot_latency(df))

Run_plot_latency_percentiles ==
    /\ At("graphgen", "plot_latency_percentiles")
    /\ IF percent_cols(columns) = <<>> THEN Return(NoChart("latency_percentiles"))
       ELSE IF SubplotsRaises(df) THEN Raise("latency_percentiles")
       ELSE Return(plot_latency_percentiles(df, columns))

\* the routines that return at once for want of their column: plot_variability
\* (cv_percent), plot_latency_stddev (stddev_us), plot_resource_overview and
\* plot_amplification (no resource or amplification column), plot_pattern_comparison
\* (pattern), plot_workload_comparison (workload), plot_sync_comparison (sync_enabled)
GuardColumns ==
    [plot_variability |-> {"cv_percent"},
     plot_latency_stddev |-> {"stddev_us"},
     plot_resource_overview |-> {"peak_rss_mb", "peak_vms_mb", "disk_read_mb",
                                 "disk_write_mb", "cpu_user_sec", "cpu_sys_sec",
                                 "cpu_percent", "db_size_mb", "duration_sec"},
     plot_amplification |-> {"write_amp", "read_amp", "space_amp"},
     plot_pattern_comparison |-> {"pattern"},
     plot_workload_comparison |-> {"workload"},
     plot_sync_comparison |-> {"sync_enabled"}]

Run_graphgen_column_guarded ==
    /\ script = "graphgen" /\ pc # <<>> /\ Head(pc) \in DOMAIN GuardColumns
    /\ GuardColumns[Head(pc)] \cap columns = {}
    /\ Return(NoChart(Head(pc)))

Run_plot_latency_vs_throughput ==
    /\ At("graphgen", "plot_latency_vs_throughput")
    /\ IF "avg_latency_us" \notin columns \/ "ops_per_sec" \notin columns
       THEN Return(NoChart("latency_vs_throughput"))
       ELSE Return(plot_latency_vs_throughput(df))

Run_plot_per_test_comparison ==
    /\ At("graphgen", "plot_per_test_comparison")
    /\ Return(plot_per_test_comparison(df))

\* one panel per amplification column of the table, each bar the engine's mean
\* of the column over df.groupby("engine"), the whole table
plot_amplification(t, cols) ==
    LET amp == SelectSeq(<<"write_amp", "read_amp", "space_amp">>, LAMBDA c : c \in cols)
        engines == SortedBy(EngineOrder, Range(Column(t, "engine")))
    IN [chart |-> "amplification", written |-> TRUE, cols |-> amp, engines |-> engines,
        means |-> [c \in Range(amp) |-> [e \in Range(engines) |-> EngineMean(t, e, c)]]]

Run_plot_amplification ==
    /\ At("graphgen", "plot_amplification")
    /\ GuardColumns["plot_amplification"] \cap columns # {}
    /\ Return(plot_amplification(df, columns))

Run_plot_pattern_comparison ==
    /\ At("graphgen", "plot_pattern_comparison")
    /\ "pattern" \in columns
    /\ Return(plot_pattern_comparison(df))

Run_plot_workload_comparison ==
    /\ At("graphgen", "plot_workload_comparison")
    /\ "workload" \in columns
    /\ Return(plot_workload_comparison(df))

Run_plot_summary_table ==
    /\ At("graphgen", "plot_summary_table")
    /\ Return(plot_summary_table(df))

Run_plot_iterator_throughput ==
    /\ At("graphgen", "plot_iterator_throughput")
    /\ Return(plot_iterator_throughput(df))

-----------------------------------------------------------------------------
(* tidesdb_rocksdb.py: the routines of main around the ratio charts.  The   *)
(* rows carry no latency value: those charts are modelled by their bars.   *)

\* v if not np.isnan(v) else 0
NanToZero(x) == IF NotNa(x) THEN x ELSE ZeroF

tr_plot_throughput_comparison(t) ==
    LET operations == Unique(Column(t, "operation"))
    IN [chart |-> "fig01_throughput_comparison", written |-> TRUE,
        operations |-> operations,
        tidesdb_ops |-> [i \in 1..Len(operations) |->
                            NanToZero(OpMean(t, operations[i], "tidesdb"))],
        rocksdb_ops |-> [i \in 1..Len(operations) |->
                            NanToZero(OpMean(t, operations[i], "rocksdb"))]]

\* with one operation, axes = [np.array([ax])]: axes[0] is an array, and
\* axes[0].bar raises AttributeError
AxesRaises(t) == Len(Unique(Column(t, "operation"))) = 1

\* one panel per operation, three bars per engine in each (cols); a percentile
\* whose column is missing is drawn at 0.1, the others at their mean
tr_plot_latency_percentiles(t, cols) ==
    LET operations == Unique(Column(t, "operation"))
    IN IF operations = <<>> THEN NoChart("fig02_latency_percentiles")
       ELSE [chart |-> "fig02_latency_percentiles", written |-> TRUE,
             operations |-> operations,
             cols |-> <<"p50_us", "p95_us", "p99_us">>,
             percentiles |-> SelectSeq(<<"p50_us", "p95_us", "p99_us">>,
                                       LAMBDA c : c \in cols)]

\* a figure of four panels, each hidden when its column is missing
plot_resource_utilization(t, cols) ==
    [chart |-> "fig04_resource_utilization", written |-> TRUE,
     operations |-> Unique(Column(t, "operation")),
     panels |-> SelectSeq(<<"peak_rss_mb", "cpu_percent", "disk_write_mb", "db_size_mb">>,
                          LAMBDA c : c \in cols)]

plot_tail_latency(t, cols) ==
    IF "p99_us" \notin cols \/ "p50_us" \notin cols THEN NoChart("fig07_tail_latency")
    ELSE [chart |-> "fig07_tail_latency", written |-> TRUE,
          operations |-> Unique(Column(t, "operation"))]

\* two panels, each drawn only when its column is there
plot_efficiency(t, cols) ==
    [chart |-> "fig08_efficiency", written |-> TRUE,
     operations |-> Unique(Column(t, "operation")),
     panels |-> SelectSeq(<<"peak_rss_mb", "cpu_percent">>, LAMBDA c : c \in cols)]

\* op_data['avg_latency_us'] is read for every (operation, engine) with rows:
\* KeyError when the column is missing
DistributionRaises(t, cols) ==
    /\ "avg_latency_us" \notin cols
    /\ \E i \in 1..Len(t) : t[i].engine \in {"tidesdb", "rocksdb"}

tr_plot_latency_distribution(t) ==
    LET operations == Unique(Column(t, "operation"))
    IN IF operations = <<>> THEN NoChart("fig09_latency_distribution")
       ELSE [chart |-> "fig09_latency_distribution", written |-> TRUE,
             operations |-> operations]

Run_tr_plot_throughput_comparison ==
    /\ At("tidesdb_rocksdb", "plot_throughput_comparison")
    /\ Return(tr_plot_throughput_comparison(df))

Run_tr_plot_latency_percentiles ==
    /\ At("tidesdb_rocksdb", "plot_latency_percentiles")
    /\ IF AxesRaises(df) THEN Raise("fig02_latency_percentiles")
       ELSE Return(tr_plot_latency_percentiles(df, columns))

\* plot_latency_variability returns at once without cv_percent,
\* plot_amplification_factors without any of write_amp, read_amp, space_amp
tr_GuardColumns ==
    [plot_latency_variability |-> {"cv_percent"},
     plot_amplification_factors |-> {"write_amp", "read_amp", "space_amp"}]

Run_tr_column_guarded ==
    /\ script = "tidesdb_rocksdb" /\ pc # <<>> /\ Head(pc) \in DOMAIN tr_GuardColumns
    /\ tr_GuardColumns[Head(pc)] \cap columns = {}
    /\ Return(NoChart(Head(pc)))

Run_plot_resource_utilization ==
    /\ At("tidesdb_rocksdb", "plot_resource_utilization")
    /\ Return(plot_resource_utilization(df, columns))

Run_plot_tail_latency ==
    /\ At("tidesdb_rocksdb", "plot_tail_latency")
    /\ Return(plot_tail_latency(df, columns))

Run_plot_efficiency ==
    /\ At("tidesdb_rocksdb", "plot_efficiency")
    /\ Return(plot_efficiency(df, columns))

Run_tr_plot_latency_distribution ==
    /\ At("tidesdb_rocksdb", "plot_latency_distribution")
    /\ IF DistributionRaises(df, columns) THEN Raise("fig09_latency_distribution")
       ELSE Return(tr_plot_latency_distribution(df))

-----------------------------------------------------------------------------
(* Loading the table: main up to its first chart routine.                  *)

LoadOf(s, raw) ==
    IF s = "graphgen" THEN GraphgenLoad(raw)
    ELSE IF s = "plot_tidesdb_rocksdb" THEN ptr_load_data(raw)
    ELSE IF s = "visualize" THEN vis_load_data(raw)
    ELSE IF s = "visualize_extensive" THEN ext_load_data(raw)
    ELSE load_benchmark_data(raw)

\* df.columns after the loader: every script but plot_tidesdb_rocksdb.py
\* assigns df.columns.str.strip()
HeaderOf(s, cols) ==
    IF s = "plot_tidesdb_rocksdb" THEN cols ELSE {StrStrip(c) : c \in cols}

\* the table read_csv hands to the rest of the loader: graphgen.py passes it
\* through ensure_columns first
Ensured(s, raw, cols) ==
    IF s = "graphgen" THEN ensure_columns(raw, HeaderOf(s, cols)) ELSE raw

\* the scripts whose main tests os.path.exists(csv_path), prints
\* "Error: CSV file not found: ..." and calls sys.exit(1); the other three hand
\* the path to pd.read_csv unchecked
ChecksCsvPath == {"tidesdb_rocksdb", "visualize"}

\* the scripts that create the output directory before reading the CSV
MakesDirFirst == {"tidesdb_rocksdb", "visualize", "visualize_extensive"}

\* the columns read between pd.read_csv and the first chart routine: the
\* dropna subset of graphgen, the two filters of plot_tidesdb_rocksdb's
\* load_data, the "Loaded ..." lines of visualize and tidesdb_rocksdb
MainReads(s) ==
    IF s = "graphgen" THEN {"ops_per_sec", "engine", "operation"}
    ELSE IF s = "plot_tidesdb_rocksdb" THEN {"test_name", "operation"}
    ELSE IF s = "visualize" THEN {"test_name"}
    ELSE IF s = "visualize_extensive" THEN {}
    ELSE {"operation", "engine"}

\* the run ends before any routine: status "exit1" is the message and
\* sys.exit(1), "traceback" the uncaught FileNotFoundError or KeyError
LoadFails(how) ==
    /\ status' = how
    /\ pc' = <<>>
    /\ df' = df
    /\ out' = [chart |-> "load", written |-> FALSE]
    /\ fs' = [fs EXCEPT !.made = (script \in MakesDirFirst)]

Load ==
    /\ pc # <<>> /\ Head(pc) = "load"
    /\ IF ~fs.exists /\ script \in ChecksCsvPath
       THEN /\ status' = "exit1"
            /\ pc' = <<>>
            /\ out' = [chart |-> "load", written |-> FALSE]
            /\ UNCHANGED <<df, fs, columns>>
       ELSE IF ~fs.exists \/ ~(MainReads(script) \subseteq HeaderOf(script, columns))
       THEN LoadFails("traceback") /\ UNCHANGED columns
       ELSE /\ df' = LoadOf(script, Ensured(script, csv, columns))
            /\ columns' = HeaderOf(script, columns)
                           \cup (IF script = "graphgen" THEN {"test_name"} ELSE {})
            /\ pc' = Tail(pc)
            /\ out' = [chart |-> "loaded", written |-> FALSE]
            /\ fs' = [fs EXCEPT !.made = TRUE]
            /\ status' = status
    /\ UNCHANGED <<script, csv, plt, seen, workers, args>>
-----------------------------------------------------------------------------
(* Means of repeated runs: graphgen's grouped charts.                      *)

\* the workloads of the fixture: (operation, test_name, batch_size)
MeanWorkloads ==
    {<<"PUT", <<"t1">>, <<"1">>>>, <<"PUT", <<"t2">>, <<"1", "0">>>>,
     <<"GET", <<"t1">>, <<"1">>>>, <<"ITER", <<"t1">>, <<"1">>>>}

MeanRows ==
    {Row(e, w[1], w[2], v, w[3]) :
        e \in {"tidesdb", "rocksdb"}, w \in MeanWorkloads, v \in {NaN, 1, 3}}

InitMean ==
    /\ script = "graphgen"
    /\ csv \in TablesUpTo(MeanRows, MaxRows)
    /\ columns = AllColumns
    /\ df = <<>>
    /\ pc = <<"load", "plot_throughput", "plot_operation_mix",
              "plot_engine_comparison", "plot_param_sweep">>
    /\ out = [chart |-> "none", written |-> FALSE]
    /\ status = "running"
    /\ fs = CsvFound
    /\ plt = NoFigures
    /\ seen = NoCalls
    /\ workers = NoWorkers
    /\ args = NoArgs

NextMean ==
    \/ Load
    \/ Run_plot_throughput
    \/ Run_plot_operation_mix
    \/ Run_plot_engine_comparison
    \/ Run_plot_param_sweep

SpecMean == InitMean /\ [][NextMean]_vars


\* the sum of ops_per_sec over the rows of the CSV with index in I
RECURSIVE SumAt(_)
SumAt(I) ==
    IF I = {} THEN 0
    ELSE LET i == CHOOSE j \in I : TRUE
         IN csv[i].ops_per_sec + SumAt(I \ {i})

\* the rows of the CSV in a cell that carry a metric value
Contributing(InCell(_)) ==
    {i \in 1..Len(csv) : InCell(csv[i]) /\ csv[i].ops_per_sec # NaN}

\* v is the arithmetic mean of ops_per_sec over the contributing rows of the cell
IsCellMean(v, InCell(_)) ==
    LET I == Contributing(InCell)
    IN I # {} => /\ v.k = "num"
                 /\ v.n * Cardinality(I) = v.d * SumAt(I)

\* C1, per chart: each plotted cell is the mean of its own contributing rows
C1_OperationMix ==
    (out.chart = "operation_mix" /\ out.written) =>
        \A e \in Range(out.engines) : \A i \in 1..Len(out.order) :
            IsCellMean(out.vals[e][i],
                       LAMBDA r : r.operation # "ITER" /\ r.engine = e
                                  /\ r.operation = out.order[i])

C1_EngineComparison ==
    (out.chart = "engine_comparison" /\ out.written) =>
        \A e \in Range(out.engines) : \A i \in 1..Len(out.order) :
            IsCellMean(out.vals[e][i],
                       LAMBDA r : r.operation \in Range(ops_order) /\ r.engine = e
                                  /\ r.operation = out.order[i])

C1_Throughput ==
    (out.chart = "throughput_overview" /\ out.written) =>
        \A op \in DOMAIN out.panels :
            LET p == out.panels[op]
            IN \A e \in Range(p.engines) : \A i \in 1..Len(p.order) :
                  IsCellMean(p.vals[e][i],
                             LAMBDA r : r.operation = op /\ r.test_name \in Range(p.order)
                                        /\ r.engine = e /\ r.test_name = p.order[i])

C1_ParamSweep ==
    (out.chart = "sweeps" /\ out.written) =>
        \A p \in DOMAIN out.charts : \A e \in Range(out.charts[p].engines) :
            LET sr == out.charts[p].series[e]
            IN /\ Len(sr.x) = Len(sr.y)
               /\ \A i \in 1..Len(sr.x) :
                     IsCellMean(sr.y[i],
                                LAMBDA r : r.operation = p[1] /\ r.engine = e
                                           /\ DigitsToNat(r[p[2]]) = sr.x[i])
               \* every cell with a contributing row is plotted
               /\ \A j \in Contributing(LAMBDA r : r.operation = p[1] /\ r.engine = e) :
                     \E i \in 1..Len(sr.x) : sr.x[i] = DigitsToNat(csv[j][p[2]])

\* C1: in graphgen's grouped charts (plot_throughput, plot_operation_mix,
\* plot_engine_comparison, plot_param_sweep) the value plotted for an (engine,
\* secondary key) cell is the arithmetic mean of ops_per_sec over exactly the CSV
\* rows that pass the chart's filter, carry that engine and that key, and have a
\* metric value: repeats count once each, rows with a missing metric count in
\* neither the sum nor the count, rows of other cells do not contribute.
C1_CellIsMeanOfItsRows ==
    /\ C1_OperationMix
    /\ C1_EngineComparison
    /\ C1_Throughput
    /\ C1_ParamSweep

\* C1 witness: a sweep is written in which one cell averages two runs of
\* different throughput while the table also holds a row with no metric value
\* or a row of another cell.
C1_Witness ==
    /\ out.chart = "sweeps" /\ out.written
    /\ \E p \in DOMAIN out.charts : \E e \in Range(out.charts[p].engines) :
          \E i \in 1..Len(out.charts[p].series[e].x) :
              LET I == Contributing(LAMBDA r : r.operation = p[1] /\ r.engine = e
                           /\ DigitsToNat(r[p[2]]) = out.charts[p].series[e].x[i])
              IN /\ \E a, b \in I : csv[a].ops_per_sec # csv[b].ops_per_sec
                 /\ out.charts[p].series[e].y[i] = Frac(2, 1)
                 /\ Len(csv) > Cardinality(I)

-----------------------------------------------------------------------------
(* The accessor val over repeated runs.                                    *)

ValWorkloads ==
    {<<"PUT", <<"write_seq_10M_t8_b1000">>>>,
     <<"PUT", <<"write_random_10M_t8_b1000">>>>,
     <<"PUT", <<"write_seq_10M_t8_b1000", "_populate">>>>,
     <<"ITER", <<"write_seq_10M_t8_b1000">>>>}

ValRows ==
    {Row(e, w[1], w[2], v, <<"1">>) :
        e \in {"tidesdb", "rocksdb"}, w \in ValWorkloads, v \in {NaN, 1, 3}}

InitVal ==
    /\ script = "plot_tidesdb_rocksdb"
    /\ csv \in TablesUpTo(ValRows, MaxRows)
    /\ columns = AllColumns
    /\ df = <<>>
    /\ pc = <<"load", "plot_speedup_summary", "plot_write_throughput">>
    /\ out = [chart |-> "none", written |-> FALSE]
    /\ status = "running"
    /\ fs = CsvFound
    /\ plt = NoFigures
    /\ seen = NoCalls
    /\ workers = NoWorkers
    /\ args = NoArgs

NextVal ==
    \/ Load
    \/ Run_ptr_plot_speedup_summary
    \/ Run_ptr_plot_write_throughput

SpecVal == InitVal /\ [][NextVal]_vars

\* C2: every value plot_write_throughput reads through val is the arithmetic
\* mean of ops_per_sec over all the rows matching (engine, test_name, operation),
\* so a benchmark repeated in the CSV is averaged over all its runs.
C2_ValIsMeanOfAllRuns ==
    (out.chart = "01_write_throughput" /\ out.written) =>
        \A p \in 1..Len(out.panels) : \A i \in 1..Len(out.panels[p].tests) :
            /\ IsCellMean(out.panels[p].tv[i],
                          LAMBDA r : r.engine = "tidesdb" /\ r.operation = "PUT"
                                     /\ r.test_name = out.panels[p].tests[i])
            /\ IsCellMean(out.panels[p].rv[i],
                          LAMBDA r : r.engine = "rocksdb" /\ r.operation = "PUT"
                                     /\ r.test_name = out.panels[p].tests[i])

-----------------------------------------------------------------------------
(* Speedup ratios: tidesdb throughput over rocksdb throughput.             *)

RatioMaxRows == 3

RatioScripts == {"visualize", "visualize_extensive", "tidesdb_rocksdb"}

\* the workloads of each script's fixture: (operation, test_name)
RatioWorkloads(s) ==
    IF s = "visualize" THEN {<<"PUT", <<"t1">>>>, <<"PUT", <<"t2">>>>}
    ELSE IF s = "visualize_extensive" THEN {<<"PUT", <<"t1">>>>, <<"GET", <<"t1">>>>}
    ELSE {<<"PUT", <<"t1">>>>, <<"get", <<"t1">>>>}

RatioRows(s) ==
    {Row(e, w[1], w[2], v, <<"1">>) :
        e \in {"tidesdb", "rocksdb"}, w \in RatioWorkloads(s), v \in {NaN, 0, 1, 3}}

\* the ratio routines of each script, in the order of its main
RatioPlan(s) ==
    IF s = "visualize" THEN <<"load", "plot_summary_heatmap", "generate_summary_table">>
    ELSE IF s = "visualize_extensive" THEN <<"load", "plot_summary", "generate_tables">>
    ELSE <<"load", "plot_performance_heatmap", "generate_summary_table">>

InitRatio ==
    /\ script \in RatioScripts
    /\ csv \in TablesUpTo(RatioRows(script), RatioMaxRows)
    /\ columns = AllColumns
    /\ df = <<>>
    /\ pc = RatioPlan(script)
    /\ out = [chart |-> "none", written |-> FALSE]
    /\ status = "running"
    /\ fs = CsvFound
    /\ plt = NoFigures
    /\ seen = NoCalls
    /\ workers = NoWorkers
    /\ args = NoArgs

NextRatio ==
    \/ Load
    \/ Run_plot_summary_heatmap
    \/ Run_vis_generate_summary_table
    \/ Run_ext_plot_summary
    \/ Run_ext_generate_tables
    \/ Run_plot_performance_heatmap
    \/ Run_tr_generate_summary_table

SpecRatio == InitRatio /\ [][NextRatio]_vars

\* The speedup charts of graphgen.py and plot_tidesdb_rocksdb.py.
SpeedupMaxRows == 4

SpeedupScripts == {"graphgen", "plot_tidesdb_rocksdb"}

SpeedupWorkloads(s) ==
    IF s = "graphgen" THEN {<<"PUT", <<"t1">>>>, <<"GET", <<"t1">>>>}
    ELSE {<<"PUT", <<"write_seq_10M_t8_b1000">>>>, <<"GET", <<"read_random_10M_t8">>>>}

\* tidesdb cells blank, 0 or 3; rocksdb cells blank, 0 or 1
SpeedupRows(s) ==
    {Row("tidesdb", w[1], w[2], v, <<"1">>) : w \in SpeedupWorkloads(s), v \in {NaN, 0, 3}}
    \cup {Row("rocksdb", w[1], w[2], v, <<"1">>) :
             w \in SpeedupWorkloads(s), v \in {NaN, 0, 1}}

SpeedupPlan(s) ==
    IF s = "graphgen" THEN <<"load", "plot_speedup_ratios">>
    ELSE <<"load", "plot_speedup_summary">>

InitSpeedup ==
    /\ script \in SpeedupScripts
    /\ csv \in TablesUpTo(SpeedupRows(script), SpeedupMaxRows)
    /\ columns = AllColumns
    /\ df = <<>>
    /\ pc = SpeedupPlan(script)
    /\ out = [chart |-> "none", written |-> FALSE]
    /\ status = "running"
    /\ fs = CsvFound
    /\ plt = NoFigures
    /\ seen = NoCalls
    /\ workers = NoWorkers
    /\ args = NoArgs

NextSpeedup ==
    \/ Load
    \/ Run_plot_speedup_ratios
    \/ Run_ptr_plot_speedup_summary

SpecSpeedup == InitSpeedup /\ [][NextSpeedup]_vars

\* the CSV rows of one engine in a cell that carry a throughput value
EngineRows(e, InCell(_)) == Contributing(LAMBDA r : r.engine = e /\ InCell(r))

\* x is the mean throughput of tidesdb's rows of the cell divided by the mean
\* of rocksdb's, both means existing and the rocksdb mean above zero
IsMeanRatio(x, InCell(_)) ==
    LET T == EngineRows("tidesdb", InCell)
        R == EngineRows("rocksdb", InCell)
    IN /\ T # {} /\ R # {}
       /\ SumAt(R) > 0
       /\ x.k = "num"
       /\ x.n * SumAt(R) * Cardinality(T) = x.d * SumAt(T) * Cardinality(R)

\* the throughput cell of the first CSV row of the engine in the cell, NaN when
\* the engine has no row there
FirstValue(e, InCell(_)) ==
    LET I == {i \in 1..Len(csv) : csv[i].engine = e /\ InCell(csv[i])}
    IN IF I = {} THEN NaN ELSE csv[CHOOSE i \in I : \A j \in I : i <= j].ops_per_sec

C3_SpeedupRatios ==
    (out.chart = "speedup_ratios" /\ out.written) =>
        /\ Len(out.ops) = Len(out.ratios)
        /\ \A i \in 1..Len(out.ops) :
              IsMeanRatio(out.ratios[i], LAMBDA r : r.operation = out.ops[i])

C3_SpeedupSummary ==
    out.chart = "00_speedup_summary" =>
        /\ Len(out.labels) = Len(out.ratios)
        /\ \A i \in 1..Len(out.labels) :
              LET tv == FirstValue("tidesdb", LAMBDA r : r.test_name = out.tests[i]
                                                        /\ r.operation = out.ops[i])
                  rv == FirstValue("rocksdb", LAMBDA r : r.test_name = out.tests[i]
                                                        /\ r.operation = out.ops[i])
              IN /\ tv # NaN /\ rv # NaN /\ rv > 0
                 /\ out.ratios[i] = Frac(tv, rv)
                 /\ \E j \in 1..Len(speedup_tests) :
                       speedup_tests[j] = <<out.tests[i][1], out.ops[i], out.labels[i]>>

\* C3: graphgen.plot_speedup_ratios and plot_tidesdb_rocksdb.plot_speedup_summary
\* emit a speedup point only when both engines' throughput values are present and
\* the rocksdb value is above zero, the point's value being tidesdb / rocksdb; a
\* zero or missing denominator leaves no point; labels and ratios have the same
\* length and entry i of one belongs to entry i of the other.
C3_PointOnlyForPositiveDenominator ==
    /\ C3_SpeedupRatios
    /\ C3_SpeedupSummary

\* C3 witness: plot_speedup_summary emits exactly one point, of ratio 3, while
\* the other workload of the table has a tidesdb value over a rocksdb value of 0.
C3_Witness ==
    /\ out.chart = "00_speedup_summary"
    /\ out.ratios = <<Frac(3, 1)>>
    /\ \E i, j \in 1..Len(csv) :
          /\ csv[i].engine = "tidesdb" /\ csv[j].engine = "rocksdb"
          /\ csv[i].test_name = csv[j].test_name /\ csv[i].operation = csv[j].operation
          /\ csv[i].ops_per_sec = 3 /\ csv[j].ops_per_sec = 0
          /\ csv[i].test_name \notin Range(out.tests)

\* C4: every ratio visualize.plot_summary_heatmap plots is a finite number.
C4_HeatmapRatiosFinite ==
    (out.chart = "fig8_summary_heatmap" /\ out.written) =>
        \A i \in 1..Len(out.ratios) : IsFinite(out.ratios[i])

\* C5: every speedup entry visualize_extensive.plot_summary plots is a finite
\* number; a (test, operation) pair with an engine missing or a rocksdb mean of
\* zero contributes no entry.
C5_SummarySpeedupsFinite ==
    (out.chart = "fig10_summary" /\ out.written) =>
        \A i \in 1..Len(out.ratios) :
            /\ IsFinite(out.ratios[i])
            /\ IsMeanRatio(out.ratios[i], LAMBDA r : r.test_name = out.entries[i][1]
                                                     /\ r.operation = out.entries[i][2])

\* the operations of the loaded table whose ratio is defined: both engines have
\* a mean and both means are above zero
DefinedRatioOps ==
    {op \in Range(Column(df, "operation")) :
        /\ Gt0(OpMean(df, op, "tidesdb"))
        /\ Gt0(OpMean(df, op, "rocksdb"))}

\* C6: tidesdb_rocksdb.plot_performance_heatmap leaves out of the bars every
\* operation whose rocksdb or tidesdb mean is zero or missing: each bar is the
\* tidesdb mean over the rocksdb mean of its operation, and there are as many
\* bars as operations with a defined ratio.
C6_BarsAreDefinedRatios ==
    (out.chart = "fig06_performance_heatmap" /\ out.written) =>
        /\ Len(out.speedups) = Cardinality(DefinedRatioOps)
        /\ \A i \in 1..Len(out.operations) :
              /\ out.operations[i] \in DefinedRatioOps
              /\ out.speedups[i] = DivF(OpMean(df, out.operations[i], "tidesdb"),
                                        OpMean(df, out.operations[i], "rocksdb"))

\* C7: in the summary tables (tidesdb_rocksdb.generate_summary_table,
\* visualize.generate_summary_table, visualize_extensive.generate_tables) a row
\* exists only for a workload whose rocksdb mean is above zero, and its Speedup
\* is the finite number tidesdb mean / rocksdb mean: never infinity, NaN, or a
\* number that is not the ratio.
C7_SpeedupCellIsRealRatio ==
    (out.chart \in {"tr_summary_table", "vis_summary_table", "ext_summary_table"}
     /\ out.written) =>
        \A i \in 1..Len(out.rows) :
            LET row == out.rows[i]
            IN /\ Gt0(row.rocksdb)
               /\ IsFinite(row.speedup)
               /\ row.speedup = DivF(row.tidesdb, row.rocksdb)

-----------------------------------------------------------------------------
(* Line charts over a numeric sweep parameter.                             *)

SweepMaxRows == 3

SweepScripts == {"graphgen", "plot_tidesdb_rocksdb", "visualize_extensive"}

\* the rows of each script's fixture
SweepRows(s) ==
    IF s = "graphgen"
    THEN {[Row(ev[1], "PUT", <<"t1">>, ev[2], w[1]) EXCEPT !.value_size = w[2]] :
             ev \in {<<"tidesdb", 1>>, <<"tidesdb", 3>>, <<"rocksdb", 1>>},
             w \in {<<<<"1">>, <<"6", "4">>>>,
                    <<<<"1", "0", "0">>, <<"6", "4">>>>,
                    <<<<"1", "0", "0", "0">>, <<"6", "4">>>>,
                    <<<<"1">>, <<"1", "0", "2", "4">>>>}}
    ELSE IF s = "plot_tidesdb_rocksdb"
    THEN {Row(ev[1], "PUT", <<n>>, ev[2], <<"1">>) :
             ev \in {<<"tidesdb", 0>>, <<"tidesdb", 3>>, <<"rocksdb", 3>>},
             n \in {"batch_1_10M_t8", "batch_100_10M_t8", "batch_1000_10M_t8",
                    "batch_1_40M_t16"}}
    ELSE {Row(e, "PUT", n, 1, <<"1">>) :
             e \in {"tidesdb", "rocksdb"},
             n \in {<<"batch_", "1">>, <<"batch_", "1", "0", "0">>,
                    <<"batch_", "1", "0", "0", "0">>}}
         \cup {Row("tidesdb", w[1], w[2], 1, <<"1">>) :
             w \in {<<"PUT", <<"threads_", "8">>>>,
                    <<"PUT", <<"threads_", "1", "6">>>>,
                    <<"PUT", <<"write_large_value">>>>,
                    <<"PUT", <<"write_small_value">>>>,
                    <<"RANGE", <<"range_", "1", "0", "0">>>>,
                    <<"RANGE", <<"range_", "1", "0">>>>,
                    <<"PUT", <<"key_", "3", "2", "B">>>>,
                    <<"PUT", <<"key_", "8", "B">>>>}}
         \cup {Row("tidesdb", "PUT", <<"threads_", "max">>, 1, <<"1">>),
               Row("tidesdb", "PUT", <<"batch_", "max">>, 1, <<"1">>)}

\* the sweep routines of each script, in the order of its main
SweepPlan(s) ==
    IF s = "graphgen" THEN <<"load", "plot_value_size_impact", "plot_param_sweep">>
    ELSE IF s = "plot_tidesdb_rocksdb" THEN <<"load", "plot_batch_scaling">>
    ELSE <<"load", "plot_threads", "plot_batch", "plot_value_size", "plot_range",
           "plot_key_size">>

InitSweep ==
    /\ script \in SweepScripts
    /\ csv \in TablesUpTo(SweepRows(script), SweepMaxRows)
    /\ columns = AllColumns
    /\ df = <<>>
    /\ pc = SweepPlan(script)
    /\ out = [chart |-> "none", written |-> FALSE]
    /\ status = "running"
    /\ fs = CsvFound
    /\ plt = NoFigures
    /\ seen = NoCalls
    /\ workers = NoWorkers
    /\ args = NoArgs

NextSweep ==
    \/ Load
    \/ Run_plot_value_size_impact
    \/ Run_plot_param_sweep
    \/ Run_ptr_plot_batch_scaling
    \/ Run_ext_plot_threads
    \/ Run_ext_plot_batch
    \/ Run_ext_plot_value_size
    \/ Run_ext_plot_range
    \/ Run_ext_plot_key_size

SpecSweep == InitSweep /\ [][NextSweep]_vars

\* The batch size and thread count charts of visualize.py.
PointsMaxRows == 3

PointsRows ==
    {Row(e, "PUT", n, v, <<"1">>) :
        e \in {"tidesdb", "rocksdb"}, v \in {1, 3},
        n \in {<<"batch_", "1">>, <<"batch_", "1", "0", "0">>,
               <<"threads_", "4">>, <<"threads_", "1", "6">>}}
    \cup {Row("tidesdb", "PUT", <<"batch_", "max">>, 1, <<"1">>),
          Row("tidesdb", "PUT", <<"threads_", "max">>, 1, <<"1">>)}

InitPoints ==
    /\ script = "visualize"
    /\ csv \in TablesUpTo(PointsRows, PointsMaxRows)
    /\ columns = AllColumns
    /\ df = <<>>
    /\ pc = <<"load", "plot_batch_size_impact", "plot_thread_scaling">>
    /\ out = [chart |-> "none", written |-> FALSE]
    /\ status = "running"
    /\ fs = CsvFound
    /\ plt = NoFigures
    /\ seen = NoCalls
    /\ workers = NoWorkers
    /\ args = NoArgs

NextPoints ==
    \/ Load
    \/ Run_plot_batch_size_impact
    \/ Run_plot_thread_scaling

SpecPoints == InitPoints /\ [][NextPoints]_vars

\* the sweep values of the CSV rows of an engine selected by Sel
SweepValues(e, Sel(_), Key(_)) ==
    {Key(csv[i]) : i \in {j \in 1..Len(csv) : csv[j].engine = e /\ Sel(csv[j])}}

\* the x values of the series are strictly ascending and are the sweep values
\* of the engine's rows
AscendingOver(sr, e, Sel(_), Key(_)) ==
    /\ StrictlyAscending(sr.x)
    /\ Range(sr.x) = SweepValues(e, Sel, Key)

C8_Graphgen ==
    /\ (out.chart = "sweeps" /\ out.written) =>
          \A p \in DOMAIN out.charts : \A e \in Range(out.charts[p].engines) :
              AscendingOver(out.charts[p].series[e], e, LAMBDA r : r.operation = p[1],
                            LAMBDA r : DigitsToNat(r[p[2]]))
    /\ (out.chart = "value_size" /\ out.written) =>
          \A op \in DOMAIN out.charts : \A e \in Range(out.charts[op].engines) :
              AscendingOver(out.charts[op].series[e], e, LAMBDA r : r.operation = op,
                            LAMBDA r : DigitsToNat(r.value_size))

C8_Extensive ==
    /\ (out.chart \in {"fig04_threads", "fig05_batch"} /\ out.written) =>
          \A e \in DOMAIN out.series :
              AscendingOver(out.series[e], e,
                            LAMBDA r : /\ r.operation = "PUT"
                                       /\ r.test_name[1] = (IF out.chart = "fig04_threads"
                                                            THEN "threads_" ELSE "batch_"),
                            LAMBDA r : DigitsToNat(SelectSeq(r.test_name, IsDigit)))
    /\ (out.chart \in {"fig06_value", "fig11_range", "fig12_keysize"} /\ out.written) =>
          \A e \in DOMAIN out.series : StrictlyAscending(out.series[e].x)

C8_BatchScaling ==
    (out.chart = "06_batch_size_scaling" /\ out.written) =>
        \A p \in 1..Len(out.panels) : StrictlyAscending(out.panels[p].batches)

\* C8: in every line chart over a numeric sweep parameter (graphgen
\* plot_param_sweep and plot_value_size_impact; visualize_extensive plot_threads,
\* plot_batch, plot_value_size, plot_range, plot_key_size; plot_tidesdb_rocksdb
\* plot_batch_scaling) the x values of each engine's series are strictly
\* ascending as numbers, whatever the order of the CSV rows and whichever sweep
\* values are absent: rows with batch sizes 1000, 1, 100 give x = [1, 100, 1000].
C8_SweepAscending ==
    /\ C8_Graphgen
    /\ C8_Extensive
    /\ C8_BatchScaling

\* C8 witness: graphgen draws a sweep from a CSV whose rows carry the batch
\* sizes 1000, 1, 100 in that order, and the series' x is 1, 100, 1000.
C8_Witness ==
    /\ out.chart = "sweeps" /\ out.written
    /\ Len(csv) = 3
    /\ csv[1].engine = csv[2].engine /\ csv[2].engine = csv[3].engine
    /\ csv[1].batch_size = <<"1", "0", "0", "0">>
    /\ csv[2].batch_size = <<"1">>
    /\ csv[3].batch_size = <<"1", "0", "0">>
    /\ out.charts[<<"PUT", "batch_size">>].series[csv[1].engine].x = <<1, 100, 1000>>

\* C9: in visualize.plot_batch_size_impact and plot_thread_scaling each engine's
\* series holds exactly one point per distinct batch size (thread count) of the
\* engine, its y the mean of ops_per_sec over the rows with that value; a value
\* benchmarked several times gives no two points with the same x.
C9_OnePointPerSweepValue ==
    (out.chart \in {"fig3_batch_size_impact", "fig4_thread_scaling"} /\ out.written) =>
        \A e \in Range(out.engines) :
            LET sr == out.series[e]
                prefix == IF out.chart = "fig3_batch_size_impact" THEN "batch_"
                          ELSE "threads_"
            IN /\ \A i, j \in 1..Len(sr.x) : sr.x[i] = sr.x[j] => i = j
               /\ \A i \in 1..Len(sr.x) :
                     IsCellMean(sr.y[i],
                                LAMBDA r : /\ r.engine = e
                                           /\ r.test_name[1] = prefix
                                           /\ DigitsToNat(SelectSeq(r.test_name, IsDigit))
                                                  = sr.x[i])

-----------------------------------------------------------------------------
(* Whole runs of graphgen.py and tidesdb_rocksdb.py, with and without the  *)
(* p99_us column.                                                          *)

RunMaxRows == 3

RunScripts == {"graphgen", "tidesdb_rocksdb"}

RunRows ==
    {Row(e, o, <<"t1">>, v, <<"1">>) :
        e \in {"tidesdb", "rocksdb"}, o \in {"PUT", "GET", "ITER"}, v \in {1, 3}}

\* generate_graphs and main: the routines in the order they are called
RunPlan(s) ==
    IF s = "graphgen"
    THEN <<"load", "plot_throughput", "plot_latency", "plot_latency_percentiles",
           "plot_variability", "plot_latency_stddev", "plot_resource_overview",
           "plot_amplification", "plot_operation_mix", "plot_engine_comparison",
           "plot_pattern_comparison", "plot_workload_comparison",
           "plot_sync_comparison", "plot_value_size_impact", "plot_speedup_ratios",
           "plot_latency_vs_throughput", "plot_per_test_comparison",
           "plot_summary_table", "plot_iterator_throughput", "plot_param_sweep">>
    ELSE <<"load", "plot_throughput_comparison", "plot_latency_percentiles",
           "plot_latency_variability", "plot_resource_utilization",
           "plot_amplification_factors", "plot_performance_heatmap",
           "plot_tail_latency", "plot_efficiency", "plot_latency_distribution",
           "generate_summary_table">>

InitRun ==
    /\ script \in RunScripts
    /\ csv \in TablesUpTo(RunRows, RunMaxRows)
    /\ columns \in {AllColumns, AllColumns \ {"p99_us"}}
    /\ df = <<>>
    /\ pc = RunPlan(script)
    /\ out = [chart |-> "none", written |-> FALSE]
    /\ status = "running"
    /\ fs = CsvFound
    /\ plt = NoFigures
    /\ seen = NoCalls
    /\ workers = NoWorkers
    /\ args = NoArgs

NextRun ==
    \/ Load
    \/ Run_plot_throughput
    \/ Run_plot_latency
    \/ Run_plot_latency_percentiles
    \/ Run_graphgen_column_guarded
    \/ Run_plot_operation_mix
    \/ Run_plot_engine_comparison
    \/ Run_plot_value_size_impact
    \/ Run_plot_speedup_ratios
    \/ Run_plot_latency_vs_throughput
    \/ Run_plot_per_test_comparison
    \/ Run_plot_summary_table
    \/ Run_plot_iterator_throughput
    \/ Run_plot_param_sweep
    \/ Run_tr_plot_throughput_comparison
    \/ Run_tr_plot_latency_percentiles
    \/ Run_tr_column_guarded
    \/ Run_plot_resource_utilization
    \/ Run_plot_performance_heatmap
    \/ Run_plot_tail_latency
    \/ Run_plot_efficiency
    \/ Run_tr_plot_latency_distribution
    \/ Run_tr_generate_summary_table

SpecRun == InitRun /\ [][NextRun]_vars

\* the CSV has a row of each engine
BothEnginesHaveRows ==
    /\ \E i \in 1..Len(csv) : csv[i].engine = "tidesdb"
    /\ \E i \in 1..Len(csv) : csv[i].engine = "rocksdb"

\* s is a suffix of q
IsSuffix(s, q) == Len(s) <= Len(q) /\ s = SubSeq(q, Len(q) - Len(s) + 1, Len(q))

\* the charts the run writes whose content is fixed by the columns present
\* and which do not read p99_us
ColumnBoundChart ==
    IF out.chart = "latency_overview" THEN out = plot_latency(df)
    ELSE IF out.chart = "latency_vs_throughput" THEN out = plot_latency_vs_throughput(df)
    ELSE IF out.chart = "fig04_resource_utilization"
         THEN out = plot_resource_utilization(df, AllColumns)
    ELSE IF out.chart = "fig08_efficiency" THEN out = plot_efficiency(df, AllColumns)
    ELSE IF out.chart = "fig09_latency_distribution"
         THEN out = tr_plot_latency_distribution(df)
    ELSE TRUE

\* C10: a run of graphgen.py or tidesdb_rocksdb.py over a table with rows of both
\* engines and no p99_us column never aborts: the routines are called in the
\* fixed order of main until none is left, a chart that does not read p99_us is
\* what it is with the column present, and the process exits with status zero.
C10_RunWithoutP99Completes ==
    (script \in RunScripts /\ "p99_us" \notin columns /\ BothEnginesHaveRows) =>
        /\ status # "traceback"
        /\ IsSuffix(pc, RunPlan(script))
        /\ (pc = <<>> <=> status = "exit0")
        /\ (out.written => ColumnBoundChart)

-----------------------------------------------------------------------------
(* Missing columns and a missing file.                                     *)

\* the charts of graphgen.py and tidesdb_rocksdb.py that show percentiles
PercentileCharts == {"latency_percentiles", "fig02_latency_percentiles", "fig07_tail_latency"}

\* C12: when the table has no p99_us column, latency_percentiles.png of graphgen.py
\* and fig02_latency_percentiles / fig07_tail_latency of tidesdb_rocksdb.py are
\* skipped: the file is not written and no bar stands for the missing percentile.
C12_PercentileChartsSkipped ==
    ("p99_us" \notin columns /\ out.chart \in PercentileCharts) =>
        /\ ~out.written
        /\ ("cols" \in DOMAIN out => "p99_us" \notin Range(out.cols))
-----------------------------------------------------------------------------
(* Whole runs of plot_tidesdb_rocksdb.py, visualize.py and                 *)
(* visualize_extensive.py: every routine of main, by the columns it reads, *)
(* whether it raises, and the files it writes.  A row of these fixtures    *)
(* carries its number in every metric column the CSV has.                  *)

\* every column a routine of the three scripts reads
FullColumns ==
    AllColumns \cup
    {"duration_sec", "cv_percent", "max_us", "peak_rss_mb", "peak_vms_mb",
     "disk_read_mb", "disk_write_mb", "cpu_percent", "db_size_mb",
     "write_amp", "read_amp", "space_amp"}

\* df[df['test_name'].isin(tests)]
NamedRows(t, tests) == SelectSeq(t, LAMBDA r : r.test_name \in tests)

\* df[(df['test_name'] == test) & (df['operation'] == op)] for the listed pairs
PairRows(t, pairs) ==
    SelectSeq(t, LAMBDA r : \E q \in pairs : r.test_name = <<q[1]>> /\ r.operation = q[2])

\* the figure saved as PNG and PDF (plt.savefig twice), or not drawn
PngPdf(stem, drawn) ==
    IF drawn THEN [chart |-> stem, written |-> TRUE,
                   files |-> << <<stem, "png">>, <<stem, "pdf">> >>]
    ELSE NoChart(stem)

\* the figure saved as one PNG (save(fig, name)), or not drawn
Png(stem, drawn) ==
    IF drawn THEN [chart |-> stem, written |-> TRUE, files |-> << <<stem, "png">> >>]
    ELSE NoChart(stem)

\* what a call of a routine comes to: df[col] of a column the table lacks is a
\* KeyError, fails is any other exception of the routine
Outcome(reads, cols, fails, chart) ==
    IF ~(reads \subseteq cols) \/ fails
    THEN [raises |-> TRUE, chart |-> NoChart(chart.chart)]
    ELSE [raises |-> FALSE, chart |-> chart]

\* plot_tidesdb_rocksdb.py: the 17 routines in the order of main.  tests are the
\* (test, operation) pairs of its lists, gate the column of the availability
\* test, draws the columns val() reads for the available tests, always is TRUE
\* where the figure is saved whether or not a test is available
PutOf(names) == {<<names[i], "PUT">> : i \in 1..Len(names)}

ptr_plots ==
    << [name |-> "plot_speedup_summary", file |-> "00_speedup_summary",
        gate |-> "ops_per_sec", draws |-> {}, always |-> TRUE,
        tests |-> {<<speedup_tests[i][1], speedup_tests[i][2]>> : i \in 1..Len(speedup_tests)}],
       [name |-> "plot_write_throughput", file |-> "01_write_throughput",
        gate |-> "ops_per_sec", draws |-> {}, always |-> FALSE,
        tests |-> PutOf(write_std_tests) \cup PutOf(write_large_tests)],
       [name |-> "plot_read_mixed", file |-> "02_read_mixed_throughput",
        gate |-> "ops_per_sec", draws |-> {}, always |-> FALSE,
        tests |-> {<<"read_random_10M_t8", "GET">>, <<"read_random_40M_t16", "GET">>}
                  \cup ({"mixed_random_5M_t8_b1000", "mixed_zipfian_5M_t8_b1000",
                         "mixed_random_20M_t16_b1000"} \X {"PUT", "GET"})],
       [name |-> "plot_delete", file |-> "03_delete_throughput",
        gate |-> "ops_per_sec", draws |-> {}, always |-> FALSE,
        tests |-> {"delete_batch_1_5M_t8", "delete_batch_100_5M_t8",
                   "delete_batch_1000_5M_t8", "delete_random_5M_t8_b1000",
                   "delete_batch_1_20M_t16", "delete_batch_1000_20M_t16",
                   "delete_random_20M_t16_b1000"} \X {"DELETE"}],
       [name |-> "plot_seek", file |-> "04_seek_throughput",
        gate |-> "ops_per_sec", draws |-> {}, always |-> FALSE,
        tests |-> {"seek_random_5M_t8", "seek_seq_5M_t8", "seek_zipfian_5M_t8",
                   "seek_random_20M_t16", "seek_seq_20M_t16", "seek_zipfian_20M_t16"}
                  \X {"SEEK"}],
       [name |-> "plot_range", file |-> "05_range_scan_throughput",
        gate |-> "ops_per_sec", draws |-> {}, always |-> FALSE,
        tests |-> {"range_random_100_1M_t8", "range_random_1000_500K_t8",
                   "range_seq_100_1M_t8", "range_random_100_4M_t16",
                   "range_random_1000_2M_t16", "range_seq_100_4M_t16"} \X {"RANGE"}],
       [name |-> "plot_batch_scaling", file |-> "06_batch_size_scaling",
        gate |-> "ops_per_sec", draws |-> {}, always |-> FALSE,
        tests |-> PutOf(std_names) \cup PutOf(large_names)],
       [name |-> "plot_value_size", file |-> "07_value_size_impact",
        gate |-> "ops_per_sec", draws |-> {}, always |-> FALSE,
        tests |-> {"write_small_values_50M_k16_v64_t8_b1000", "write_random_10M_t8_b1000",
                   "write_large_values_1M_k256_v4096_t8_b1000",
                   "write_small_values_200M_k16_v64_t16_b1000", "write_random_40M_t16_b1000",
                   "write_large_values_4M_k256_v4096_t16_b1000"} \X {"PUT"}],
       [name |-> "plot_latency_overview", file |-> "08_latency_overview",
        gate |-> "avg_latency_us", draws |-> {}, always |-> FALSE,
        tests |-> ({"write_seq_10M_t8_b1000", "write_random_10M_t8_b1000",
                    "write_zipfian_5M_t8_b1000", "write_seq_40M_t16_b1000",
                    "write_random_40M_t16_b1000"} \X {"PUT"})
                  \cup ({"read_random_10M_t8", "read_random_40M_t16",
                         "mixed_random_5M_t8_b1000", "mixed_random_20M_t16_b1000"} \X {"GET"})
                  \cup ({"seek_random_5M_t8", "seek_seq_5M_t8", "seek_zipfian_5M_t8",
                         "seek_random_20M_t16", "seek_seq_20M_t16"} \X {"SEEK"})
                  \cup ({"range_random_100_1M_t8", "range_random_1000_500K_t8",
                         "range_seq_100_1M_t8", "range_random_100_4M_t16",
                         "range_random_1000_2M_t16"} \X {"RANGE"})],
       [name |-> "plot_latency_percentiles", file |-> "09_latency_percentiles",
        gate |-> "p50_us", draws |-> {"p50_us", "p95_us", "p99_us"}, always |-> FALSE,
        tests |-> {<<"write_seq_10M_t8_b1000", "PUT">>, <<"write_random_10M_t8_b1000", "PUT">>,
                   <<"read_random_10M_t8", "GET">>, <<"seek_random_5M_t8", "SEEK">>,
                   <<"range_random_100_1M_t8", "RANGE">>,
                   <<"delete_random_5M_t8_b1000", "DELETE">>}],
       [name |-> "plot_write_amp", file |-> "10_write_amplification",
        gate |-> "write_amp", draws |-> {}, always |-> FALSE,
        tests |-> {"write_seq_10M_t8_b1000", "write_random_10M_t8_b1000",
                   "write_zipfian_5M_t8_b1000", "write_small_values_50M_k16_v64_t8_b1000",
                   "write_large_values_1M_k256_v4096_t8_b1000", "write_seq_40M_t16_b1000",
                   "write_random_40M_t16_b1000", "write_zipfian_20M_t16_b1000",
                   "write_small_values_200M_k16_v64_t16_b1000",
                   "write_large_values_4M_k256_v4096_t16_b1000"} \X {"PUT"}],
       [name |-> "plot_space", file |-> "11_space_efficiency",
        gate |-> "db_size_mb", draws |-> {"db_size_mb", "space_amp"}, always |-> FALSE,
        tests |-> {"write_seq_10M_t8_b1000", "write_random_10M_t8_b1000",
                   "write_small_values_50M_k16_v64_t8_b1000",
                   "write_large_values_1M_k256_v4096_t8_b1000", "write_seq_40M_t16_b1000",
                   "write_random_40M_t16_b1000"} \X {"PUT"}],
       [name |-> "plot_resources", file |-> "12_resource_usage",
        gate |-> "peak_rss_mb", always |-> FALSE,
        draws |-> {"peak_rss_mb", "disk_write_mb", "cpu_percent", "peak_vms_mb"},
        tests |-> ({"write_seq_10M_t8_b1000", "write_random_10M_t8_b1000",
                    "write_seq_40M_t16_b1000", "write_random_40M_t16_b1000"} \X {"PUT"})
                  \cup {<<"read_random_10M_t8", "GET">>, <<"read_random_40M_t16", "GET">>}],
       [name |-> "plot_tail_latency", file |-> "13_tail_latency",
        gate |-> "avg_latency_us", draws |-> {"avg_latency_us", "p99_us"}, always |-> FALSE,
        tests |-> {"write_seq_10M_t8_b1000", "write_random_10M_t8_b1000",
                   "write_zipfian_5M_t8_b1000", "write_large_values_1M_k256_v4096_t8_b1000",
                   "write_seq_40M_t16_b1000", "write_random_40M_t16_b1000",
                   "write_zipfian_20M_t16_b1000",
                   "write_large_values_4M_k256_v4096_t16_b1000"} \X {"PUT"}],
       [name |-> "plot_duration", file |-> "14_duration_comparison",
        gate |-> "duration_sec", draws |-> {}, always |-> FALSE,
        tests |-> ({"write_seq_10M_t8_b1000", "write_random_10M_t8_b1000",
                    "write_small_values_50M_k16_v64_t8_b1000",
                    "write_large_values_1M_k256_v4096_t8_b1000", "write_seq_40M_t16_b1000",
                    "write_random_40M_t16_b1000", "write_small_values_200M_k16_v64_t16_b1000",
                    "write_large_values_4M_k256_v4096_t16_b1000"} \X {"PUT"})
                  \cup {<<"read_random_10M_t8", "GET">>, <<"read_random_40M_t16", "GET">>}],
       [name |-> "plot_cv", file |-> "15_latency_variability",
        gate |-> "cv_percent", draws |-> {}, always |-> FALSE,
        tests |-> ({"write_seq_10M_t8_b1000", "write_random_10M_t8_b1000",
                    "write_zipfian_5M_t8_b1000",
                    "write_large_values_1M_k256_v4096_t8_b1000"} \X {"PUT"})
                  \cup {<<"read_random_10M_t8", "GET">>, <<"seek_random_5M_t8", "SEEK">>,
                        <<"seek_seq_5M_t8", "SEEK">>, <<"range_random_100_1M_t8", "RANGE">>}],
       [name |-> "plot_sync_writes", file |-> "16_sync_write_performance",
        gate |-> "ops_per_sec", draws |-> {"avg_latency_us"}, always |-> FALSE,
        tests |-> {"sync_write_random_25K_t1_b1000", "sync_write_random_50K_t4_b1000",
                   "sync_write_random_100K_t8_b1000", "sync_write_random_500K_t16_b1000"}
                  \X {"PUT"}] >>

\* the tests with a positive value for either engine: val() of the gate column
\* is the first matching row's number
Available(t, p) == {q \in p.tests : HasData(t, <<q[1]>>, q[2])}

\* a routine of plot_tidesdb_rocksdb.py: val() reads engine, test_name and
\* operation for every listed test, the gate column when a row matches, the
\* drawn columns for the available tests; the file is saved when a test is
\* available, else the routine prints its "skipped" line
ptr_routine(p, t, cols) ==
    LET avail == Available(t, p)
        reads == {"engine", "test_name", "operation"}
                 \cup (IF PairRows(t, p.tests) # <<>> THEN {p.gate} ELSE {})
                 \cup (IF avail # {} THEN p.draws ELSE {})
    IN Outcome(reads, cols, FALSE, Png(p.file, p.always \/ avail # {}))

\* the entry of ptr_plots of a routine name
PlotNamed(name) ==
    ptr_plots[CHOOSE i \in 1..Len(ptr_plots) : ptr_plots[i].name = name]

\* visualize.py: the test lists of its routines
vis_throughput_tests ==
    {<<"seq_write_10M">>, <<"random_write_10M">>, <<"zipfian_write_5M">>,
     <<"random_read_10M">>, <<"seq_read_10M">>,
     <<"mixed_random_5M">>, <<"mixed_zipfian_5M">>, <<"random_delete_5M">>,
     <<"random_seek_5M">>, <<"seq_seek_5M">>, <<"range_100_1M">>}
vis_latency_tests == {<<"random_write_10M">>, <<"random_read_10M">>, <<"mixed_random_5M">>}
vis_cv_tests == vis_latency_tests \cup {<<"random_seek_5M">>}

\* df[df['test_name'].str.startswith(prefix)]
PrefixRows(t, prefix) == SelectSeq(t, LAMBDA r : StartsWith(r.test_name, prefix))

\* df[df['test_name'].str.contains(part)]
ContainsRows(t, part) ==
    SelectSeq(t, LAMBDA r : \E i \in 1..Len(r.test_name) : r.test_name[i] = part)

\* a routine of visualize.py.  The figure of plot_throughput_comparison and of
\* plot_latency_distribution is saved whatever the table holds; a panel reads
\* the engine column and its values only when a row carries one of its tests.
vis_routine(name, t, cols) ==
    IF name = "plot_throughput_comparison"
    THEN Outcome(IF NamedRows(t, vis_throughput_tests) # <<>>
                 THEN {"engine", "ops_per_sec"} ELSE {},
                 cols, FALSE, PngPdf("fig1_throughput_comparison", TRUE))
    ELSE IF name = "plot_latency_distribution"
    THEN Outcome(IF NamedRows(t, vis_latency_tests) # <<>>
                 THEN {"engine", "p50_us", "p95_us", "p99_us"} ELSE {},
                 cols, FALSE, PngPdf("fig2_latency_distribution", TRUE))
    ELSE IF name = "plot_batch_size_impact"
    THEN Outcome(IF PrefixRows(t, "batch_") # <<>> THEN {"engine", "ops_per_sec"} ELSE {},
                 cols, vis_ExtractRaises(t, "batch_"),
                 PngPdf("fig3_batch_size_impact", PrefixRows(t, "batch_") # <<>>))
    ELSE IF name = "plot_thread_scaling"
    THEN Outcome(IF PrefixRows(t, "threads_") # <<>> THEN {"engine", "ops_per_sec"} ELSE {},
                 cols, vis_ExtractRaises(t, "threads_"),
                 PngPdf("fig4_thread_scaling", PrefixRows(t, "threads_") # <<>>))
    ELSE IF name = "plot_value_size_impact"
    THEN Outcome(IF ContainsRows(t, "value_write") # <<>>
                 THEN {"engine", "ops_per_sec", "avg_latency_us"} ELSE {},
                 cols, FALSE,
                 PngPdf("fig5_value_size_impact", ContainsRows(t, "value_write") # <<>>))
    ELSE IF name = "plot_resource_usage"
    THEN Outcome(IF t # <<>> /\ {"peak_rss_mb", "disk_write_mb", "cpu_percent",
                                 "db_size_mb"} \cap cols # {}
                 THEN {"engine"} ELSE {},
                 cols, FALSE, PngPdf("fig6_resource_usage", t # <<>>))
    ELSE IF name = "plot_amplification_factors"
    THEN Outcome({"write_amp", "read_amp", "space_amp"}
                 \cup (IF NamedRows(t, vis_latency_tests) # <<>> THEN {"engine"} ELSE {}),
                 cols, FALSE,
                 PngPdf("fig7_amplification_factors", NamedRows(t, vis_latency_tests) # <<>>))
    ELSE IF name = "plot_summary_heatmap"
    THEN Outcome({"test_name", "engine", "ops_per_sec"}, cols, FALSE,
                 PngPdf("fig8_summary_heatmap",
                        plot_summary_heatmap(t, SortedBy(Unique(Column(t, "test_name")),
                                                         Range(Column(t, "test_name")))).written))
    ELSE IF name = "plot_latency_variability"
    THEN Outcome(IF NamedRows(t, vis_cv_tests) # <<>> /\ "cv_percent" \in cols
                 THEN {"engine"} ELSE {},
                 cols, FALSE,
                 PngPdf("fig9_latency_variability",
                        NamedRows(t, vis_cv_tests) # <<>> /\ "cv_percent" \in cols))
    ELSE \* generate_summary_table: summary_table.csv and summary_table.tex
        Outcome((IF t # <<>> THEN {"engine"} ELSE {})
                \cup (IF vis_generate_summary_table(t).written
                      THEN {"ops_per_sec", "p99_us"} ELSE {}),
                cols, FALSE,
                IF vis_generate_summary_table(t).written
                THEN [chart |-> "summary_table", written |-> TRUE,
                      files |-> << <<"summary_table", "csv">>, <<"summary_table", "tex">> >>]
                ELSE NoChart("summary_table"))

\* visualize_extensive.py: the (test, operation) pairs of its routines
ext_throughput_cats ==
    ({"write_seq_5M", "write_random_5M", "write_zipfian_5M",
      "mixed_random_5M", "mixed_zipfian_5M"} \X {"PUT"})
    \cup ({"read_random_warm_5M", "read_seq_warm_5M",
           "read_random_cold_5M", "read_seq_cold_5M"} \X {"GET"})
    \cup {<<"seek_random_5M", "SEEK">>, <<"seek_seq_5M", "SEEK">>,
          <<"delete_random_5M", "DELETE">>}
ext_latency_wl ==
    {<<"write_random_5M", "PUT">>, <<"read_random_warm_5M", "GET">>,
     <<"seek_random_5M", "SEEK">>, <<"mixed_random_5M", "PUT">>}

\* the columns every boolean mask of the script reads
ext_keys == {"test_name", "engine", "operation"}

\* a routine of visualize_extensive.py.  plot_throughput_overview, plot_latency,
\* plot_cache, plot_resources, plot_amplification and plot_variability save
\* their figure whatever the table holds; plot_cache, plot_resources,
\* plot_amplification and plot_variability read their columns even from an
\* empty selection.
ext_routine(name, t, cols) ==
    IF name = "plot_throughput_overview"
    THEN Outcome({"test_name", "operation"}
                 \cup (IF PairRows(t, ext_throughput_cats) # <<>>
                       THEN {"engine", "ops_per_sec"} ELSE {}),
                 cols, FALSE, PngPdf("fig01_throughput", TRUE))
    ELSE IF name = "plot_latency"
    THEN Outcome({"test_name", "operation"}
                 \cup (IF PairRows(t, ext_latency_wl) # <<>>
                       THEN {"engine", "p50_us", "p95_us", "p99_us", "max_us"} ELSE {}),
                 cols, FALSE, PngPdf("fig02_latency", TRUE))
    ELSE IF name = "plot_cache"
    THEN Outcome(ext_keys \cup {"ops_per_sec", "avg_latency_us"},
                 cols, FALSE, PngPdf("fig03_cache", TRUE))
    ELSE IF name = "plot_threads"
    THEN Outcome({"test_name", "operation"}
                 \cup (IF PrefixPutRows(t, "threads_") # <<>>
                       THEN {"engine", "ops_per_sec"} ELSE {}),
                 cols, ExtractRaises(PrefixPutRows(t, "threads_")),
                 PngPdf("fig04_threads", PrefixPutRows(t, "threads_") # <<>>))
    ELSE IF name = "plot_batch"
    THEN Outcome({"test_name", "operation"}
                 \cup (IF PrefixPutRows(t, "batch_") # <<>>
                       THEN {"engine", "ops_per_sec", "avg_latency_us", "write_amp"} ELSE {}),
                 cols, ExtractRaises(PrefixPutRows(t, "batch_")),
                 PngPdf("fig05_batch", PrefixPutRows(t, "batch_") # <<>>))
    ELSE IF name = "plot_value_size"
    THEN Outcome({"test_name", "operation"}
                 \cup (IF plot_value_size(t).written
                       THEN {"engine", "ops_per_sec", "space_amp"} ELSE {}),
                 cols, FALSE, PngPdf("fig06_value", plot_value_size(t).written))
    ELSE IF name = "plot_resources"
    THEN Outcome(ext_keys \cup {"peak_rss_mb", "disk_write_mb", "cpu_percent", "db_size_mb"},
                 cols, FALSE, PngPdf("fig07_resources", TRUE))
    ELSE IF name = "plot_amplification"
    THEN Outcome(ext_keys \cup {"write_amp", "space_amp", "disk_read_mb"},
                 cols, FALSE, PngPdf("fig08_amplification", TRUE))
    ELSE IF name = "plot_variability"
    THEN Outcome(ext_keys \cup {"cv_percent", "p50_us"}
                 \cup (IF \E q \in ext_latency_wl, e \in {"tidesdb", "rocksdb"} :
                             Gt0(MeanOps(SelectSeq(PairRows(t, {q}), LAMBDA r : r.engine = e)))
                       THEN {"p99_us"} ELSE {}),
                 cols, FALSE, PngPdf("fig09_variability", TRUE))
    ELSE IF name = "plot_summary"
    THEN Outcome({"test_name"}
                 \cup (IF t # <<>> THEN {"operation", "engine", "ops_per_sec"} ELSE {}),
                 cols, FALSE,
                 PngPdf("fig10_summary",
                        \E p \in Range(TestOpPairs(t)) : Gt0(PairMean(t, p, "rocksdb"))))
    ELSE IF name = "plot_range"
    THEN Outcome({"test_name", "operation"}
                 \cup (IF plot_range(t).written
                       THEN {"engine", "ops_per_sec", "avg_latency_us"} ELSE {}),
                 cols, FALSE, PngPdf("fig11_range", plot_range(t).written))
    ELSE IF name = "plot_key_size"
    THEN Outcome({"test_name", "operation"}
                 \cup (IF plot_key_size(t).written THEN {"engine", "ops_per_sec"} ELSE {}),
                 cols, FALSE, PngPdf("fig12_keysize", plot_key_size(t).written))
    ELSE \* generate_tables: summary_table.csv
        Outcome({"test_name"}
                \cup (IF t # <<>> THEN {"engine", "operation"} ELSE {})
                \cup (IF generate_tables(t).written THEN {"ops_per_sec", "p99_us"} ELSE {}),
                cols, FALSE,
                IF generate_tables(t).written
                THEN [chart |-> "summary_table", written |-> TRUE,
                      files |-> << <<"summary_table", "csv">> >>]
                ELSE NoChart("summary_table"))

\* main: the routines in the order they are called
MainPlan(s) ==
    IF s = "plot_tidesdb_rocksdb"
    THEN <<"load">> \o [i \in 1..Len(ptr_plots) |-> ptr_plots[i].name]
    ELSE IF s = "visualize"
    THEN <<"load", "plot_throughput_comparison", "plot_latency_distribution",
           "plot_batch_size_impact", "plot_thread_scaling", "plot_value_size_impact",
           "plot_resource_usage", "plot_amplification_factors", "plot_summary_heatmap",
           "plot_latency_variability", "generate_summary_table">>
    ELSE IF s = "visualize_extensive"
    THEN <<"load", "plot_throughput_overview", "plot_latency", "plot_cache",
           "plot_threads", "plot_batch", "plot_value_size", "plot_resources",
           "plot_amplification", "plot_variability", "plot_summary", "plot_range",
           "plot_key_size", "generate_tables">>
    ELSE RunPlan(s)

\* main calls its next routine: an exception ends the run, else the routine
\* returns after writing its files or skipping
Call(o) == IF o.raises THEN Raise(Head(pc)) ELSE Return(o.chart)

Run_ptr_routine ==
    /\ script = "plot_tidesdb_rocksdb" /\ pc # <<>>
    /\ \E i \in 1..Len(ptr_plots) : ptr_plots[i].name = Head(pc)
    /\ Call(ptr_routine(PlotNamed(Head(pc)), df, columns))

Run_vis_routine ==
    /\ script = "visualize" /\ pc # <<>> /\ Head(pc) # "load"
    /\ Call(vis_routine(Head(pc), df, columns))

Run_ext_routine ==
    /\ script = "visualize_extensive" /\ pc # <<>> /\ Head(pc) # "load"
    /\ Call(ext_routine(Head(pc), df, columns))

MainMaxRows == 2

MainScripts == {"plot_tidesdb_rocksdb", "visualize", "visualize_extensive"}

\* per script: a test one of its charts lists, a test of a swept chart, a test
\* no chart lists; the number 0 is a measured zero
MainTests(s) ==
    IF s = "plot_tidesdb_rocksdb"
    THEN {<<"write_seq_10M_t8_b1000">>, <<"sync_write_random_25K_t1_b1000">>, <<"t1">>}
    ELSE IF s = "visualize"
    THEN {<<"random_write_10M">>, <<"batch_", "1">>, <<"t1">>}
    ELSE {<<"write_random_5M">>, <<"threads_", "1">>, <<"t1">>}

MainRows(s) ==
    IF s \in MainScripts
    THEN {Row(e, "PUT", t, v, <<"1">>) :
             e \in {"tidesdb", "rocksdb"}, t \in MainTests(s), v \in {0, 1}}
    ELSE RunRows

\* the header of the CSV: complete, without p99_us, without engine
MainColumns(s) ==
    LET all == IF s \in MainScripts THEN FullColumns ELSE AllColumns
    IN {all, all \ {"p99_us"}, all \ {"engine"}}

InitMain ==
    /\ script \in MainScripts \cup RunScripts
    /\ csv \in TablesUpTo(MainRows(script), MainMaxRows)
    /\ columns \in MainColumns(script)
    /\ df = <<>>
    /\ pc = MainPlan(script)
    /\ out = [chart |-> "none", written |-> FALSE]
    /\ status = "running"
    /\ fs \in {[CsvFound EXCEPT !.exists = b] : b \in BOOLEAN}
    /\ plt = NoFigures
    /\ seen = NoCalls
    /\ workers = NoWorkers
    /\ args = NoArgs

NextMain ==
    \/ NextRun
    \/ Run_ptr_routine
    \/ Run_vis_routine
    \/ Run_ext_routine

SpecMain == InitMain /\ [][NextMain]_vars
-----------------------------------------------------------------------------
(* Whole runs: missing p99_us, missing file, missing engine column.        *)

\* the tests of the fixtures that a chart reading p99_us lists
PercentileTests ==
    {<<"write_seq_10M_t8_b1000">>, <<"random_write_10M">>, <<"write_random_5M">>}

\* the CSV has a row of a test the percentile charts list
HasPercentileRows == \E i \in 1..Len(csv) : csv[i].test_name \in PercentileTests

\* C11: a run of visualize.py, visualize_extensive.py or plot_tidesdb_rocksdb.py
\* over a table that has rows for the charts' test names and no p99_us column
\* never aborts: the routines that read p99_us return without raising and every
\* later routine of main is called, in order, until the process exits with
\* status zero.
C11_MainWithoutP99Completes ==
    (/\ script \in MainScripts
     /\ fs.exists
     /\ columns = FullColumns \ {"p99_us"}
     /\ HasPercentileRows) =>
        /\ status # "traceback"
        /\ IsSuffix(pc, MainPlan(script))
        /\ (pc = <<>> <=> status = "exit0")

\* C13: when the CSV path names no file, the run of each of the five scripts ends
\* before any chart routine is called, with a message that names the problem and
\* exit status 1 (sys.exit(1)), never with an uncaught exception.
C13_MissingCsvReported ==
    ~fs.exists =>
        \/ status = "running" /\ pc = MainPlan(script)
        \/ status = "exit1" /\ pc = <<>> /\ out.chart = "load" /\ fs.files = <<>>

\* C14: when the CSV has rows and no engine column, the run of each of the five
\* scripts aborts where the engine key is first needed: it never exits with
\* status zero and no chart or table file is written, before or after the abort.
C14_NoEngineNoFiles ==
    (fs.exists /\ "engine" \notin columns /\ csv # <<>>) =>
        /\ fs.files = <<>>
        /\ status # "exit0"
        /\ (pc = <<>> => status = "traceback")

\* runs of plot_tidesdb_rocksdb.py over an existing CSV with every column
InitPtr ==
    /\ InitMain
    /\ script = "plot_tidesdb_rocksdb"
    /\ columns = FullColumns
    /\ fs.exists

NextPtr == Load \/ Run_ptr_routine

\* main is never stopped between two routines: the call of the next routine is
\* taken whenever one is pending
SpecPtr == InitPtr /\ [][NextPtr]_vars /\ WF_vars(NextPtr)

\* the run is one of plot_tidesdb_rocksdb.py with nothing missing
PtrRunComplete ==
    script = "plot_tidesdb_rocksdb" /\ fs.exists /\ columns = FullColumns

\* the routine of ptr_plots that writes the file of the chart
PlotOfFile(stem) ==
    ptr_plots[CHOOSE i \in 1..Len(ptr_plots) : ptr_plots[i].file = stem]

\* the state after one of the 17 routines returned
PtrRoutineReturned ==
    PtrRunComplete /\ \E i \in 1..Len(ptr_plots) : ptr_plots[i].file = out.chart

\* C15: each of the 17 chart routines of plot_tidesdb_rocksdb.py writes its PNG
\* exactly when one of its listed tests has a positive value for either engine,
\* and writes nothing otherwise; either way the routines are called in the fixed
\* order of main and the run reaches its final "Done" line (exit status zero).
C15_EachPlotWrittenIffData ==
    /\ [](PtrRoutineReturned =>
             (out.written <=> Available(df, PlotOfFile(out.chart)) # {}))
    /\ [](PtrRunComplete => IsSuffix(pc, MainPlan(script)))
    /\ (PtrRunComplete ~> status = "exit0")
-----------------------------------------------------------------------------
(* graphgen's grouped bar charts: one bar per engine and category.         *)

BarsMaxRows == 2

\* a CSV row with the pattern and workload columns
BarsRow(e, o, t, v, p, w) ==
    Row(e, o, t, v, <<"1">>) @@ [pattern |-> p, workload |-> w]

\* the categories of the fixture: (test_name, pattern, workload); the third
\* has blank pattern and workload cells
BarsCategories ==
    {<< <<"t1">>, "random", "read">>, << <<"t2">>, "seq", "write">>,
     << <<"t1">>, Blank, Blank>>}

BarsRows ==
    {BarsRow(e, o, c[1], v, c[2], c[3]) :
        e \in {"tidesdb", "rocksdb"}, o \in {"PUT", "GET", "ITER"},
        c \in BarsCategories, v \in {1, 3}}

BarsPlan ==
    <<"load", "plot_throughput", "plot_operation_mix", "plot_engine_comparison",
      "plot_per_test_comparison", "plot_iterator_throughput",
      "plot_pattern_comparison", "plot_workload_comparison">>

InitBars ==
    /\ script = "graphgen"
    /\ csv \in TablesUpTo(BarsRows, BarsMaxRows)
    /\ columns = AllColumns \cup {"pattern", "workload"}
    /\ df = <<>>
    /\ pc = BarsPlan
    /\ out = [chart |-> "none", written |-> FALSE]
    /\ status = "running"
    /\ fs = CsvFound
    /\ plt = NoFigures
    /\ seen = NoCalls
    /\ workers = NoWorkers
    /\ args = NoArgs

NextBars ==
    \/ Load
    \/ Run_plot_throughput
    \/ Run_plot_operation_mix
    \/ Run_plot_engine_comparison
    \/ Run_plot_per_test_comparison
    \/ Run_plot_iterator_throughput
    \/ Run_plot_pattern_comparison
    \/ Run_plot_workload_comparison

SpecBars == InitBars /\ [][NextBars]_vars

BarCharts ==
    {"throughput_overview", "operation_mix", "engine_comparison", "per_test",
     "iterator_throughput", "pattern", "workload_comparison"}

\* the column whose values are the categories of a chart's axis
CategoryColumn(chart) ==
    IF chart \in {"throughput_overview", "per_test", "iterator_throughput"} THEN "test_name"
    ELSE IF chart \in {"operation_mix", "engine_comparison"} THEN "operation"
    ELSE IF chart = "pattern" THEN "pattern"
    ELSE "workload"

\* the rows a chart (or its panel of operation op) draws from
InChart(chart, op, r) ==
    IF chart \in {"throughput_overview", "per_test", "pattern"} THEN r.operation = op
    ELSE IF chart = "iterator_throughput" THEN r.operation = "ITER"
    ELSE IF chart = "operation_mix" THEN r.operation # "ITER"
    ELSE IF chart = "engine_comparison" THEN r.operation \in Range(ops_order)
    ELSE TRUE

\* the rows of the loaded table in the cell (engine e, category c)
CellRows(chart, op, e, c) ==
    SelectSeq(df, LAMBDA r : InChart(chart, op, r) /\ r.engine = e
                             /\ r[CategoryColumn(chart)] = c)

\* the bar groups of the chart just drawn: [op, order, vals]
BarGroups ==
    IF "panels" \in DOMAIN out
    THEN {[op |-> op, order |-> out.panels[op].order, vals |-> out.panels[op].vals] :
             op \in DOMAIN out.panels}
    ELSE {[op |-> "all", order |-> out.order, vals |-> out.vals]}

BarChartDrawn == out.chart \in BarCharts /\ out.written

\* C16: in every grouped bar chart of graphgen each engine's value list has one
\* entry per category of the axis, in axis order: the mean of the cell's rows,
\* or 0 for a cell with no rows; and none of the routines raises
C16_BarsAlignedZeroFilled ==
    /\ BarChartDrawn =>
          \A g \in BarGroups : \A e \in DOMAIN g.vals :
              /\ Len(g.vals[e]) = Len(g.order)
              /\ \A i, j \in 1..Len(g.order) : g.order[i] = g.order[j] => i = j
              /\ \A i \in 1..Len(g.order) :
                    LET cell == CellRows(out.chart, g.op, e, g.order[i])
                    IN g.vals[e][i] = IF cell = <<>> THEN ZeroF
                                      ELSE SeriesMean(Column(cell, "ops_per_sec"))
    /\ status # "traceback"

\* a chart in which an engine has no rows in one category, drawn as 0, and a
\* bar of its own in a later category
C16_MissingCellDrawnAsZero ==
    /\ BarChartDrawn
    /\ \E g \in BarGroups : \E e \in DOMAIN g.vals : \E i, j \in 1..Len(g.order) :
          /\ i < j
          /\ Len(g.vals[e]) = Len(g.order)
          /\ CellRows(out.chart, g.op, e, g.order[i]) = <<>>
          /\ g.vals[e][i] = ZeroF
          /\ CellRows(out.chart, g.op, e, g.order[j]) # <<>>
          /\ g.vals[e][j] # ZeroF

-----------------------------------------------------------------------------
(* The table after the loader: no routine changes it.                      *)

\* the loader has returned the table
TableLoaded == out.chart \notin {"none", "load"}

\* a step of a chart or table routine, not of the loader
RoutineStep == pc # <<>> /\ Head(pc) # "load"

-----------------------------------------------------------------------------
(* A routine called again in the same process.                             *)

TwiceMaxRows == 2

TwiceRows(s) ==
    IF s \in MainScripts
    THEN {Row(e, "PUT", t, 1, <<"1">>) : e \in {"tidesdb", "rocksdb"}, t \in MainTests(s)}
    ELSE {Row(e, o, <<"t1">>, 1, <<"1">>) :
             e \in {"tidesdb", "rocksdb"}, o \in {"PUT", "GET", "ITER"}}

\* routine r called first, then the routines of main in their order, then r
\* once more
TwicePlan(s, r) == <<"load", r>> \o Tail(MainPlan(s)) \o <<r>>

InitTwice ==
    /\ script \in MainScripts \cup RunScripts
    /\ csv \in TablesUpTo(TwiceRows(script), TwiceMaxRows)
    /\ columns = IF script \in MainScripts THEN FullColumns ELSE AllColumns
    /\ df = <<>>
    /\ pc \in {TwicePlan(script, r) : r \in Range(Tail(MainPlan(script)))}
    /\ out = [chart |-> "none", written |-> FALSE]
    /\ status = "running"
    /\ fs = CsvFound
    /\ plt = NoFigures
    /\ seen = NoCalls
    /\ workers = NoWorkers
    /\ args = NoArgs

NextTwice == NextMain

SpecTwice == InitTwice /\ [][NextTwice]_vars

\* the routine that is next has been called before in this process
RepeatedCall == pc # <<>> /\ Head(pc) \in DOMAIN seen

\* the routines that sort by a computed key (mean throughput, speedup): the
\* order of equal keys is the sort's own
SortingRoutines == {"plot_throughput", "plot_performance_heatmap"}

\* the first result of the sorting routine is its result on the table as it is
\* now, for some order of equal keys
SameAgain ==
    IF Head(pc) = "plot_throughput"
    THEN \E tie \in Perms(Range(Column(df, "test_name"))) :
            plot_throughput(df, tie) = seen[Head(pc)]
    ELSE \E tie \in Perms(Range(Column(df, "operation"))) :
            plot_performance_heatmap(df, tie) = seen[Head(pc)]

-----------------------------------------------------------------------------
(* The routines of a script as worker units of one process, interleaved.   *)

\* the number of worker units
WorkerUnits == 2

\* the scripts whose routines save and close with plt.savefig(path) and
\* plt.close(), which act on pyplot's current figure; graphgen.py and
\* plot_tidesdb_rocksdb.py call fig.savefig(path) and plt.close(fig)
CurrentFigureScripts == {"tidesdb_rocksdb", "visualize", "visualize_extensive"}

\* the routines taken as worker units
WorkerRoutines(s) ==
    IF s \in MainScripts THEN Range(Tail(MainPlan(s)))
    ELSE IF s = "graphgen" THEN {"plot_operation_mix", "plot_engine_comparison"}
    ELSE {"plot_throughput_comparison", "plot_efficiency"}

\* what the routine makes of the table when it runs alone
WorkerOutcome(s, r, t, cols) ==
    IF s = "plot_tidesdb_rocksdb" THEN ptr_routine(PlotNamed(r), t, cols)
    ELSE IF s = "visualize" THEN vis_routine(r, t, cols)
    ELSE IF s = "visualize_extensive" THEN ext_routine(r, t, cols)
    ELSE [raises |-> FALSE,
          chart |-> IF r = "plot_operation_mix" THEN plot_operation_mix(t)
                    ELSE IF r = "plot_engine_comparison" THEN plot_engine_comparison(t)
                    ELSE IF r = "plot_throughput_comparison"
                    THEN tr_plot_throughput_comparison(t)
                    ELSE plot_efficiency(t, cols)]

\* the routine draws and saves its chart from this table
Draws(s, r, t, cols) ==
    /\ ~WorkerOutcome(s, r, t, cols).raises
    /\ WorkerOutcome(s, r, t, cols).chart.written

\* the table is loaded and the units run
UnitsRun == pc = <<>> /\ status = "running" /\ out.chart # "none"

\* fig, axes = plt.subplots(...): the new figure becomes the current one; the
\* routine draws through the axes it was handed
Worker_subplots ==
    /\ UnitsRun
    /\ \E r \in DOMAIN workers :
          /\ workers[r] = "start"
          /\ plt' = [open |-> Append(plt.open, r)]
          /\ workers' = [workers EXCEPT ![r] = "drawn"]
    /\ UNCHANGED <<script, csv, columns, df, pc, out, status, fs, seen, args>>

\* the figure the routine's save call writes: the current figure for
\* plt.savefig (a new empty one when none is open), its own for fig.savefig
SavedFigure(s, r, p) ==
    IF s \in CurrentFigureScripts
    THEN IF gcf(p) = "none" THEN "blank" ELSE gcf(p)
    ELSE r

Worker_savefig ==
    /\ UnitsRun
    /\ \E r \in DOMAIN workers :
          LET chart == WorkerOutcome(script, r, df, columns).chart
              files == FilesOf(chart, r)
          IN /\ workers[r] = "drawn"
             /\ out' = chart
             /\ fs' = [fs EXCEPT !.files = @ \o
                         [i \in 1..Len(files) |->
                             [files[i] EXCEPT !.fig = SavedFigure(script, r, plt)]]]
             /\ plt' = IF script \in CurrentFigureScripts /\ gcf(plt) = "none"
                       THEN [open |-> <<"blank">>] ELSE plt
             /\ workers' = [workers EXCEPT ![r] = "saved"]
    /\ UNCHANGED <<script, csv, columns, df, pc, status, seen, args>>

\* plt.close() closes the current figure, plt.close(fig) the routine's own
ClosedBy(s, r, p) ==
    IF s \in CurrentFigureScripts
    THEN [open |-> IF p.open = <<>> THEN <<>> ELSE SubSeq(p.open, 1, Len(p.open) - 1)]
    ELSE [open |-> SelectSeq(p.open, LAMBDA f : f # r)]

Worker_close ==
    /\ UnitsRun
    /\ \E r \in DOMAIN workers :
          /\ workers[r] = "saved"
          /\ plt' = ClosedBy(script, r, plt)
          /\ workers' = [workers EXCEPT ![r] = "done"]
          /\ status' = IF \A q \in DOMAIN workers \ {r} : workers[q] = "done"
                       THEN "exit0" ELSE "running"
    /\ UNCHANGED <<script, csv, columns, df, pc, out, fs, seen, args>>

InitWorkers ==
    /\ script \in MainScripts \cup RunScripts
    /\ csv \in TablesUpTo(TwiceRows(script), TwiceMaxRows)
    /\ columns = IF script \in MainScripts THEN FullColumns ELSE AllColumns
    /\ df = <<>>
    /\ pc = <<"load">>
    /\ out = [chart |-> "none", written |-> FALSE]
    /\ status = "running"
    /\ fs = CsvFound
    /\ plt = NoFigures
    /\ seen = NoCalls
    /\ args = NoArgs
    /\ \E U \in SUBSET WorkerRoutines(script) :
          /\ Cardinality(U) = WorkerUnits
          /\ \A r \in U : Draws(script, r, LoadOf(script, csv), columns)
          /\ workers = [r \in U |-> "start"]

NextWorkers ==
    \/ Load
    \/ Worker_subplots
    \/ Worker_savefig
    \/ Worker_close

SpecWorkers == InitWorkers /\ [][NextWorkers]_vars

\* C19: interleaved as worker units the routines each write their own chart to
\* their own file: every file holds the figure of the routine that wrote it,
\* and a routine's figure stays open from its creation until the routine
\* itself closes it
C19_EachUnitSavesItsOwnFigure ==
    /\ \A i \in 1..Len(fs.files) : fs.files[i].fig = fs.files[i].by
    /\ \A r \in DOMAIN workers :
          workers[r] \in {"drawn", "saved"} => r \in Range(plt.open)

\* the same for the routines that save with fig.savefig and close with
\* plt.close(fig)
C19_OwnFigureWhereFigureIsNamed ==
    script \notin CurrentFigureScripts => C19_EachUnitSavesItsOwnFigure

-----------------------------------------------------------------------------
(* The output files of one run.                                            *)

FilesMaxRows == 4

\* graphgen.py takes the operation column as it is spelled: PUT and put are
\* two operations, here each with two batch sizes
FilesRows(s) ==
    IF s = "graphgen"
    THEN {Row("tidesdb", o, <<"t1">>, 1, b) :
             o \in {"PUT", "put"}, b \in {<<"1">>, <<"2">>}}
    ELSE TwiceRows(s)

InitFiles ==
    /\ script \in MainScripts \cup RunScripts
    /\ csv \in TablesUpTo(FilesRows(script), FilesMaxRows)
    /\ columns = IF script \in MainScripts THEN FullColumns ELSE AllColumns
    /\ df = <<>>
    /\ pc = MainPlan(script)
    /\ out = [chart |-> "none", written |-> FALSE]
    /\ status = "running"
    /\ fs = CsvFound
    /\ plt = NoFigures
    /\ seen = NoCalls
    /\ workers = NoWorkers
    /\ args = NoArgs

NextFiles == NextMain

SpecFiles == InitFiles /\ [][NextFiles]_vars

\* C20: within one run every output path is written at most once: no two
\* routines and no two iterations of a loop of a routine write the same file
C20_EachPathWrittenOnce ==
    \A i, j \in 1..Len(fs.files) : fs.files[i].path = fs.files[j].path => i = j

\* the same for the tables whose operations are all spelled in upper case
C20_OncePerPathForUpperCaseOperations ==
    (\A i \in 1..Len(csv) : StrUpper(csv[i].operation) = csv[i].operation)
        => C20_EachPathWrittenOnce

-----------------------------------------------------------------------------
(* graphgen.py: rows with a latency and an amplification of their own.     *)

MetricsMaxRows == 2

\* a CSV row with its own avg_latency_us and write_amp cells
MetricRow(e, o, v, lat, amp) ==
    Row(e, o, <<"t1">>, v, <<"1">>) @@ [avg_latency_us |-> lat, write_amp |-> amp]

MetricsRows ==
    {MetricRow(e, o, v, m, m) :
        e \in {"tidesdb", "rocksdb"}, o \in {"PUT", "ITER"}, v \in {NaN, 1}, m \in {1, 3}}

InitMetrics ==
    /\ script = "graphgen"
    /\ csv \in TablesUpTo(MetricsRows, MetricsMaxRows)
    /\ columns = AllColumns \cup {"write_amp"}
    /\ df = <<>>
    /\ pc = <<"load", "plot_throughput", "plot_latency", "plot_amplification",
              "plot_iterator_throughput">>
    /\ out = [chart |-> "none", written |-> FALSE]
    /\ status = "running"
    /\ fs = CsvFound
    /\ plt = NoFigures
    /\ seen = NoCalls
    /\ workers = NoWorkers
    /\ args = NoArgs

NextMetrics ==
    \/ Load
    \/ Run_plot_throughput
    \/ Run_plot_latency
    \/ Run_plot_amplification
    \/ Run_plot_iterator_throughput

SpecMetrics == InitMetrics /\ [][NextMetrics]_vars

\* the cells of column c in the rows of the CSV of engine e and, where op is
\* not "any", of operation op
CsvCells(e, op, c) ==
    LET rows == SelectSeq(csv, LAMBDA r : r.engine = e /\ (op = "any" \/ r.operation = op))
    IN [i \in 1..Len(rows) |-> rows[i][c]]

\* C21: a row without a throughput value but with a valid latency stays in the
\* loaded table and counts in the latency means: each bar of latency_overview
\* is the mean of avg_latency_us over all rows of the CSV of its engine and
\* operation that carry a latency
C21_LatencyMeanCountsRowsWithoutThroughput ==
    /\ (out.chart = "loaded") => Len(df) = Len(csv)
    /\ (out.chart = "latency_overview" /\ out.written) =>
          \A e \in {"tidesdb", "rocksdb"} :
              LET cells == CsvCells(e, "PUT", "avg_latency_us")
              IN SeriesCount(cells) > 0 =>
                    /\ "PUT" \in DOMAIN out.means
                    /\ e \in DOMAIN out.means["PUT"]
                    /\ out.means["PUT"][e]["avg_latency_us"] = SeriesMean(cells)

\* the latency means are the means over the rows that survive the loader
C21_LatencyMeanOverLoadedRows ==
    (out.chart = "latency_overview" /\ out.written) =>
        \A op \in DOMAIN out.means : \A e \in DOMAIN out.means[op] :
            out.means[op][e]["avg_latency_us"] =
                SeriesMean(Column(SelectSeq(df, LAMBDA r : r.engine = e /\ r.operation = op),
                                  "avg_latency_us"))

\* C25: ITER rows count in no chart but iterator_throughput: each bar of
\* amplification is its engine's mean of the column over the rows of the
\* table whose operation is not ITER, and an engine with ITER rows only has
\* no bar
C25_AmplificationMeansLeaveIterOut ==
    (out.chart = "amplification" /\ out.written) =>
        LET rest == SelectSeq(df, LAMBDA r : r.operation # "ITER")
        IN /\ Range(out.engines) = Range(Column(rest, "engine"))
           /\ \A e \in Range(Column(rest, "engine")) :
                 out.means["write_amp"][e] =
                     SeriesMean(Column(WhereEq(rest, "engine", e), "write_amp"))

\* the panels of latency_overview do leave the ITER rows out
C25_LatencyPanelsLeaveIterOut ==
    (out.chart = "latency_overview" /\ out.written) => "ITER" \notin DOMAIN out.means

\* C23: when no row survives the loader every routine of generate_graphs
\* returns without raising and writes no chart file
C23_EmptyTableNoChartNoTraceback ==
    (TableLoaded /\ df = <<>>) => (status # "traceback" /\ fs.files = <<>>)

\* plot_throughput does return early on the empty table
C23_ThroughputSkippedOnEmptyTable ==
    (df = <<>> /\ out.chart = "throughput_overview") => (~out.written /\ status # "traceback")

-----------------------------------------------------------------------------
(* Two spellings of one CSV: blanks around header names, letter case of    *)
(* the engine and operation cells.                                         *)

CaseMaxRows == 2

CaseScripts ==
    {"graphgen", "plot_tidesdb_rocksdb", "visualize", "visualize_extensive", "tidesdb_rocksdb"}

CaseRows(s) ==
    {Row(e, o, t, 1, <<"1">>) :
        e \in {"tidesdb", "TidesDB", "rocksdb"}, o \in {"PUT", "put"},
        t \in {CHOOSE n \in MainTests(s) : n # <<"t1">>}}

\* the header as written, and with blanks around three of its names
CaseColumns ==
    {FullColumns,
     (FullColumns \ {"engine", "test_name", "ops_per_sec"})
         \cup {" engine", "test_name ", " ops_per_sec "}}

CasePlan(s) ==
    IF s = "graphgen" THEN <<"load", "plot_latency">>
    ELSE IF s = "tidesdb_rocksdb" THEN <<"load", "plot_throughput_comparison">>
    ELSE SubSeq(MainPlan(s), 1, 3)

InitCase ==
    /\ script \in CaseScripts
    /\ csv \in TablesUpTo(CaseRows(script), CaseMaxRows)
    /\ columns \in CaseColumns
    /\ df = <<>>
    /\ pc = CasePlan(script)
    /\ out = [chart |-> "none", written |-> FALSE]
    /\ status = "running"
    /\ fs = CsvFound
    /\ plt = NoFigures
    /\ seen = NoCalls
    /\ workers = NoWorkers
    /\ args = NoArgs

NextCase ==
    \/ Load
    \/ Run_plot_latency
    \/ Run_tr_plot_throughput_comparison
    \/ Run_ptr_routine
    \/ Run_vis_routine
    \/ Run_ext_routine

SpecCase == InitCase /\ [][NextCase]_vars

\* the other spelling of the CSV: engines in lower case, operations in upper
\* case, header names without blanks
NormCase(raw) ==
    [i \in 1..Len(raw) |->
        [raw[i] EXCEPT !.engine = StrLower(@), !.operation = StrUpper(@)]]
NormHeader(cols) == {StrStrip(c) : c \in cols}

\* what the routine called next does on a table and a header
CaseOutcome(s, name, t, cols) ==
    IF s = "plot_tidesdb_rocksdb" THEN ptr_routine(PlotNamed(name), t, cols)
    ELSE IF s = "visualize" THEN vis_routine(name, t, cols)
    ELSE IF s = "visualize_extensive" THEN ext_routine(name, t, cols)
    ELSE IF s = "tidesdb_rocksdb"
    THEN [raises |-> FALSE, chart |-> tr_plot_throughput_comparison(t)]
    ELSE [raises |-> "avg_latency_us" \in cols /\ SubplotsRaises(t),
          chart |-> IF "avg_latency_us" \in cols THEN plot_latency(t)
                    ELSE NoChart("latency_overview")]

\* the run of the script on the other spelling reaches the routine and the
\* routine does there what it does here
SameOnOtherSpelling ==
    LET cols == HeaderOf(script, NormHeader(columns))
        o == CaseOutcome(script, Head(pc), LoadOf(script, NormCase(csv)), cols)
    IN /\ (status' = "traceback") = o.raises
       /\ ~o.raises => out' = o.chart

\* C22: the CSV and its other spelling (header names without blanks, engines
\* in lower case, operations in upper case) give the same run: the load
\* succeeds for both or for neither, and every routine returns the same
\* chart, written or skipped, with the same series, or raises for both
C22_SpellingsGiveSameCharts ==
    /\ [](out.chart = "load" => ~(MainReads(script) \subseteq NormHeader(columns)))
    /\ [][RoutineStep => SameOnOtherSpelling]_vars

\* tidesdb_rocksdb.py alone
C22_SameChartsInTidesdbRocksdb ==
    [][(script = "tidesdb_rocksdb" /\ RoutineStep) => SameOnOtherSpelling]_vars

-----------------------------------------------------------------------------
(* tidesdb_rocksdb.py with and without --no-pdf.                           *)

PdfMaxRows == 2

PdfRows ==
    {Row(e, o, <<"t1">>, v, <<"1">>) :
        e \in {"tidesdb", "rocksdb"}, o \in {"PUT", "GET"}, v \in {1, 3}}

InitPdf ==
    /\ script = "tidesdb_rocksdb"
    /\ csv \in TablesUpTo(PdfRows, PdfMaxRows)
    /\ columns \in {AllColumns, FullColumns}
    /\ df = <<>>
    /\ pc = RunPlan(script)
    /\ out = [chart |-> "none", written |-> FALSE]
    /\ status = "running"
    /\ fs = CsvFound
    /\ plt = NoFigures
    /\ seen = NoCalls
    /\ workers = NoWorkers
    /\ args \in {[no_pdf |-> b] : b \in BOOLEAN}

\* the two routines behind a column guard, with their column in the CSV:
\* plot_amplification_factors skips when no row has a positive amplification
Run_plot_latency_variability ==
    /\ At("tidesdb_rocksdb", "plot_latency_variability")
    /\ "cv_percent" \in columns
    /\ Return([chart |-> "fig03_latency_variability", written |-> TRUE,
               operations |-> Unique(Column(df, "operation"))])

Run_plot_amplification_factors ==
    /\ At("tidesdb_rocksdb", "plot_amplification_factors")
    /\ tr_GuardColumns["plot_amplification_factors"] \cap columns # {}
    /\ Return(IF df = <<>> THEN NoChart("fig05_amplification_factors")
              ELSE [chart |-> "fig05_amplification_factors", written |-> TRUE,
                    operations |-> Unique(Column(df, "operation"))])

NextPdf ==
    \/ Load
    \/ Run_tr_plot_throughput_comparison
    \/ Run_tr_plot_latency_percentiles
    \/ Run_tr_column_guarded
    \/ Run_plot_latency_variability
    \/ Run_plot_amplification_factors
    \/ Run_plot_resource_utilization
    \/ Run_plot_performance_heatmap
    \/ Run_plot_tail_latency
    \/ Run_plot_efficiency
    \/ Run_tr_plot_latency_distribution
    \/ Run_tr_generate_summary_table

SpecPdf == InitPdf /\ [][NextPdf]_vars

\* the extension of a written file
Extension(f) == f.path[Len(f.path)]

\* C24: with --no-pdf no routine writes a .pdf file
C24_NoPdfWithFlag ==
    args.no_pdf => \A i \in 1..Len(fs.files) : Extension(fs.files[i]) # "pdf"

\* the PNG of a figure is written before its PDF, flag or no flag, and the
\* summary tables are a .csv and a .tex
C24_PngBeforeEachPdf ==
    \A i \in 1..Len(fs.files) :
        Extension(fs.files[i]) = "pdf" =>
            /\ i > 1
            /\ Extension(fs.files[i - 1]) = "png"
            /\ SubSeq(fs.files[i - 1].path, 1, 1) = SubSeq(fs.files[i].path, 1, 1)

-----------------------------------------------------------------------------
(* Open figures between the routines of a run.                             *)

\* C26: every routine closes the figure it created on every return path:
\* between two routines, and after the last, no figure is open
C26_NoFigureOpenBetweenRoutines ==
    status \in {"running", "exit0"} => plt.open = <<>>

\* graphgen.py, plot_tidesdb_rocksdb.py and tidesdb_rocksdb.py leave no figure
\* open
C26_NoFigureOpenInThreeScripts ==
    script \in {"graphgen", "plot_tidesdb_rocksdb", "tidesdb_rocksdb"} => plt.open = <<>>

-----------------------------------------------------------------------------
(* The output directory and the input file.                                *)

\* C27: the output directory is created only after the input CSV has been
\* found: a run whose input file is missing creates no directory and writes
\* no file
C27_MissingInputLeavesFileSystemUnchanged ==
    ~fs.exists => (~fs.made /\ fs.files = <<>>)

\* the four scripts other than visualize_extensive.py create nothing when the
\* input is missing
C27_NothingCreatedOutsideExtensive ==
    (~fs.exists /\ script # "visualize_extensive") => (~fs.made /\ fs.files = <<>>)

-----------------------------------------------------------------------------
(* plot_tidesdb_rocksdb.py: the count of the last line of main.            *)

DoneMaxRows == 2

\* what benchmark_plots may hold before the run: a chart of an earlier run
\* under a name of this one, another PNG, a file that is no PNG
OldFiles == {<<"00_speedup_summary", "png">>, <<"old_chart", "png">>, <<"notes", "txt">>}

InitDone ==
    /\ script = "plot_tidesdb_rocksdb"
    /\ csv \in TablesUpTo(MainRows(script), DoneMaxRows)
    /\ columns = FullColumns
    /\ df = <<>>
    /\ pc = MainPlan(script) \o <<"done">>
    /\ out = [chart |-> "none", written |-> FALSE]
    /\ status = "running"
    /\ fs \in {[CsvFound EXCEPT !.old = o] : o \in SUBSET OldFiles}
    /\ plt = NoFigures
    /\ seen = NoCalls
    /\ workers = NoWorkers
    /\ args = NoArgs

\* os.listdir(OUT_DIR): the files of before and the files written by the run
listdir(f) == f.old \cup {f.files[i].path : i \in 1..Len(f.files)}

\* n = len([f for f in os.listdir(OUT_DIR) if f.endswith('.png')])
PlotsSaved(f) == Cardinality({p \in listdir(f) : p[Len(p)] = "png"})

\* print(f'\nDone! {n} plots saved to {OUT_DIR}/')
Run_ptr_done ==
    /\ At("plot_tidesdb_rocksdb", "done")
    /\ Return([chart |-> "done", written |-> FALSE, n |-> PlotsSaved(fs)])

NextDone ==
    \/ Load
    \/ Run_ptr_routine
    \/ Run_ptr_done

SpecDone == InitDone /\ [][NextDone]_vars

\* C28: the n of "Done! n plots saved" is the number of chart files save()
\* wrote in this run, whatever the directory held before
C28_CountIsFilesWrittenThisRun ==
    out.chart = "done" => out.n = Len(fs.files)

\* in a directory that held no PNG before, n is the number of files written
C28_CountRightInFreshDirectory ==
    (out.chart = "done" /\ \A p \in fs.old : p[Len(p)] # "png") => out.n = Len(fs.files)

-----------------------------------------------------------------------------
(* graphgen.py: test names built by ensure_columns.                        *)

EnsureMaxRows == 2

\* headers with and without test_name, with all, one or none of the
\* descriptor columns of the fixture
EnsureColumns ==
    {{"engine", "ops_per_sec"} \cup d \cup n :
        d \in {{"workload", "pattern", "operation", "batch_size"}, {"operation"}},
        n \in {{}, {"test_name"}}}

\* a row of a CSV with these columns; the cells of workload and pattern are
\* names of one or two words
EnsureRows(cols) ==
    {(IF "test_name" \in cols THEN [test_name |-> <<"t1">>] ELSE <<>>) @@
     [engine |-> "tidesdb", operation |-> "PUT", ops_per_sec |-> v,
      batch_size |-> <<"1">>, value_size |-> <<"6", "4">>, workload |-> w, pattern |-> p] :
        v \in {1, 3}, w \in {<<"mixed">>, <<"mixed", "_", "read">>},
        p \in {<<"heavy">>, <<"read", "_", "heavy">>, <<>>}}

InitEnsure ==
    /\ script = "graphgen"
    /\ columns \in EnsureColumns
    /\ csv \in TablesUpTo(EnsureRows(columns), EnsureMaxRows)
    /\ df = <<>>
    /\ pc = <<"load", "plot_throughput">>
    /\ out = [chart |-> "none", written |-> FALSE]
    /\ status = "running"
    /\ fs = CsvFound
    /\ plt = NoFigures
    /\ seen = NoCalls
    /\ workers = NoWorkers
    /\ args = NoArgs

NextEnsure ==
    \/ Load
    \/ Run_plot_throughput

SpecEnsure == InitEnsure /\ [][NextEnsure]_vars

\* the header of the CSV had a test_name column
HadTestName == \E i \in 1..Len(csv) : "test_name" \in DOMAIN csv[i]

\* the descriptor columns of the header, in the order of the list
PresentDescriptors == SelectSeq(descriptor_cols, LAMBDA c : c \in columns)

\* the cells of row r in the descriptor columns, each as its text
RECURSIVE Joined(_, _)
Joined(r, k) ==
    LET cell == r[PresentDescriptors[k]]
        text == IF PresentDescriptors[k] = "operation" THEN <<cell>>
                ELSE IF cell = <<>> THEN <<"nan">> ELSE cell
    IN IF k = 1 THEN text ELSE Joined(r, k - 1) \o <<"_">> \o text

\* two rows of the CSV agree on every descriptor column of the header
SameDescriptors(i, j) ==
    \A k \in 1..Len(PresentDescriptors) :
        csv[i][PresentDescriptors[k]] = csv[j][PresentDescriptors[k]]

\* a test_name of the CSV is kept; a missing one is the descriptor cells
\* joined with "_" in the order of the list; no other cell changes
TestNamesBuilt ==
    (out.chart = "loaded" /\ Len(df) = Len(csv)) =>
        \A i \in 1..Len(csv) :
            /\ "test_name" \in DOMAIN csv[i] => df[i].test_name = csv[i].test_name
            /\ "test_name" \notin DOMAIN csv[i] => df[i].test_name = Joined(csv[i], Len(PresentDescriptors))
            /\ \A f \in DOMAIN csv[i] \ {"test_name"} : df[i][f] = GraphgenLoad(csv)[i][f]

\* rows get the same built name exactly when they agree on the descriptors
NamesTellRowsApart ==
    (out.chart = "loaded" /\ Len(df) = Len(csv) /\ ~HadTestName) =>
        \A i, j \in 1..Len(csv) :
            (df[i].test_name = df[j].test_name) <=> SameDescriptors(i, j)

\* C29: ensure_columns keeps an existing test_name; without one each row gets
\* the text of its descriptor columns joined with "_" in the fixed order;
\* nothing else changes; and two rows get the same test_name exactly when
\* they agree on all descriptor columns of the header
C29_TestNameFromDescriptors == TestNamesBuilt /\ NamesTellRowsApart

\* all of the claim but the last part
C29_TestNameBuiltInOrder == TestNamesBuilt

-----------------------------------------------------------------------------
(* graphgen.py: top_tests and the category axis of plot_throughput.        *)

TopMaxTests == 14

\* test i of the fixture
TestNo(i) == <<"t", i>>

\* one PUT row per test 1..n with means rising or falling with i, the tests
\* of pair given the mean of the first of them
TopBase(n, falling, pair) ==
    [i \in 1..n |->
        LET j == IF i \in pair THEN CHOOSE k \in pair : \A q \in pair : k <= q ELSE i
        IN Row(IF i % 2 = 0 THEN "tidesdb" ELSE "rocksdb", "PUT", TestNo(i),
               IF falling THEN TopMaxTests + 2 - j ELSE j, <<"1">>)]

\* a second run of a late test that lifts its mean, rows of other operations
TopExtra ==
    {<<>>,
     <<Row("tidesdb", "PUT", TestNo(13), 40, <<"1">>)>>,
     <<Row("tidesdb", "GET", TestNo(1), 5, <<"1">>)>>,
     <<Row("tidesdb", "ITER", TestNo(2), 9, <<"1">>)>>}

TopPairs == {{}, {1, 2}, {12, 13}, {11, 12, 13}}

InitTop ==
    /\ script = "graphgen"
    /\ \E n \in 0..TopMaxTests, falling \in BOOLEAN, pair \in TopPairs, extra \in TopExtra :
          csv = TopBase(n, falling, pair) \o extra
    /\ columns = AllColumns
    /\ df = <<>>
    /\ pc = <<"load", "plot_throughput">>
    /\ out = [chart |-> "none", written |-> FALSE]
    /\ status = "running"
    /\ fs = CsvFound
    /\ plt = NoFigures
    /\ seen = NoCalls
    /\ workers = NoWorkers
    /\ args = NoArgs

NextTop ==
    \/ Load
    \/ Run_plot_throughput

SpecTop == InitTop /\ [][NextTop]_vars

\* the tests of the table with a row of operation op, and their means
TestsOf(op) == {df[i].test_name : i \in {k \in 1..Len(df) : df[k].operation = op}}
TopMean(x, op) == MeanOps(SelectSeq(df, LAMBDA r : r.test_name = x /\ r.operation = op))

\* the list is one top_tests may return for the operation
IsTopList(L, op) ==
    /\ Len(L) <= max_tests
    /\ \A i, j \in 1..Len(L) : i # j => L[i] # L[j]
    /\ \A i \in 1..Len(L) : L[i] \in TestsOf(op)
    /\ \A i, j \in 1..Len(L) : i < j => ~LtF(TopMean(L[i], op), TopMean(L[j], op))
    /\ \A x \in TestsOf(op) \ Range(L) :
          \A i \in 1..Len(L) : ~LtF(TopMean(L[i], op), TopMean(x, op))
    /\ Len(L) = IF Cardinality(TestsOf(op)) <= max_tests
                THEN Cardinality(TestsOf(op)) ELSE max_tests

\* C30: top_tests returns at most max_tests distinct tests with a row of the
\* operation, in the order of non-increasing mean ops_per_sec, leaving out no
\* test with a greater mean than one it returns, and nothing when no row has
\* the operation; the category axis of each panel of plot_throughput is this
\* list in this order
C30_TopTestsOnTheAxis ==
    /\ TableLoaded =>
          \A op \in {"PUT", "GET", "SEEK"} :
              TestsOf(op) = {} => top_tests(df, op, <<>>) = <<>>
    /\ (out.chart = "throughput_overview" /\ out.written) =>
          \A op \in DOMAIN out.panels :
              /\ IsTopList(out.panels[op].order, op)
              /\ \E tie \in TieOrders(df) : out.panels[op].order = top_tests(df, op, tie)
              /\ \A e \in DOMAIN out.panels[op].vals :
                    Len(out.panels[op].vals[e]) = Len(out.panels[op].order)

\* a panel with max_tests tests on its axis and a test left out
C30_AxisCutAtMaxTests ==
    /\ out.chart = "throughput_overview" /\ out.written
    /\ "PUT" \in DOMAIN out.panels
    /\ Len(out.panels["PUT"].order) = max_tests
    /\ TestsOf("PUT") \ Range(out.panels["PUT"].order) # {}

=============================================================================
